---------------------------- MODULE Spec2Model ----------------------------
(***************************************************************************)
(* A model of the hololive OCG helper: the Store primitives and the        *)
(* crawler of tools/hocg_tool2.py, the two text normalizers                *)
(* (tools/hocg_tool2.py and tools/hocg_refine_update.py), the search       *)
(* engine and its schema cache (app/services/db.py, app/ui.py), the        *)
(* translation writers (tools/namuwiki_ko_common.py, namu_sync.py, the CSV *)
(* importers) and the update pipeline (app/services/pipeline.py).          *)
(*                                                                         *)
(* Strings are sequences of atoms.  A card number such as " hBP01-001" is  *)
(* <<" ", "hBP01-001">>: the atom " " is one run of whitespace, every      *)
(* other atom is a run of non-blank characters.  updated_at columns are    *)
(* left out: no operation reads them.                                      *)
(***************************************************************************)
EXTENDS Integers, Sequences, FiniteSets, TLC

VARIABLES
    db,           \* the Store as the open connection sees it (uncommitted writes included)
    dbC,          \* the Store as committed on disk
    sUpserted,    \* history: the stripped card_numbers passed to upsert_print
    sReturned,    \* history: stripped card_number -> the print_ids upsert_print returned
    sReplaced,    \* history: print_id -> the tags of its last replace_print_tags
    nText,        \* normalizers: the text at hand (a page text, then the stored raw_text)
    nPrev,        \* normalizers: the text before the last normalizer call
    nOrigin,      \* normalizers: "input" or, once the crawler normalized it, "crawled"
    nPasses,      \* normalizers: the number of refine passes made over nText
    args,         \* crawl: the command line (expansion, workers, max_cards, max_pages)
    pc,           \* crawl: where the orchestrating thread of cmd_scrape stands
    expIdx,       \* crawl: index of the current set code in the run's list
    page,         \* crawl: scrape_expansion's page
    items,        \* crawl: the items of the current list page not yet looked at
    new_items,    \* crawl: process_list_page's new_items
    seen_ids,     \* crawl: args._seen_ids
    seen_total,   \* crawl: args._seen_total
    cur,          \* crawl: the detail _handle_detail is persisting
    fut,          \* crawl: the futures of the current page's pool, by card_id
    fetched,      \* history: card_id -> number of fetches of its detail page
    pagesFetched, \* history: set-code index -> number of list pages fetched for it
    zeroPage,     \* history: set-code index -> the page that yielded no new item, or 0
    skipped,      \* history: card_ids whose fetch failed or whose page had no card number
    listed,       \* history: card_ids of the items parsed from the fetched list pages
    abortCause,   \* history: why the run ended with an exception, or "none"
    sdb,          \* search: the database file the application has open
    sq,           \* search: the query of the last search
    slimit,       \* search: its limit (0: none given)
    smode,        \* search: "suggest", "exact", or "idle" before the first search
    sres,         \* search: what the last search returned, or that it raised
    ko,           \* translations: the card_texts_ko rows, by print_id
    koLast,       \* history: the last translation write and the row it found
    bpc,          \* batches: where the run stands
    bCap,         \* batches: args.max_cards
    bTotal,       \* batches: args._seen_total
    bLeft,        \* batches: the items of the current list page not yet looked at
    bUncommitted, \* batches: the cards persisted since the last commit
    bCommitted,   \* batches: the cards committed
    bLost,        \* history: the cards an interruption rolled back
    pIn,          \* parse_detail: the page, the fallback number and the verbose flag
    pOut,         \* parse_detail: what it returned for pIn, <<>> before the call
    cIno,         \* cache: the tag layout of every database file made, by inode
    cPath,        \* cache: the inode each path names
    cTfDb,        \* cache: tf_db.value, the path the UI works on
    cEpoch,       \* cache: conn_epoch["value"]
    cTl,          \* cache: thread -> its thread_local (conn, epoch, path)
    cConns,       \* cache: id() -> the open connection with that id, or NoConn
    cJoin,        \* cache: _JOIN_CACHE, id() -> join variant or MISSING
    cUpd,         \* cache: "idle", or the path the running update works on
    cLast,        \* history: the last search's join variant and connection epoch
    plPc,         \* pipeline: where run_update_and_refine stands
    plCfg,        \* pipeline: tools found, a Korean source given, a bundled DB there
    plTarget,     \* pipeline: the content of the file at db_path, "none" if missing
    plTmp,        \* pipeline: the content of the .download file, "none" if missing
    plStarted,    \* history: the local tools started, in order
    plRc,         \* history: tool -> its exit code, for the tools that have exited
    plDl,         \* history: the download's response, the files before and after it
    plErr         \* pipeline: the exception the run ended with, or "none"

storeVars == <<db, dbC, sUpserted, sReturned, sReplaced>>

histVars == <<sUpserted, sReturned, sReplaced>>

normVars == <<nText, nPrev, nOrigin, nPasses>>

crawlVars ==
    <<args, pc, expIdx, page, items, new_items, seen_ids, seen_total, cur, fut,
      fetched, pagesFetched, zeroPage, skipped, listed, abortCause>>

searchVars == <<sdb, sq, slimit, smode, sres>>

koVars == <<ko, koLast>>

batchVars == <<bpc, bCap, bTotal, bLeft, bUncommitted, bCommitted, bLost>>

parseVars == <<pIn, pOut>>

cacheVars == <<cIno, cPath, cTfDb, cEpoch, cTl, cConns, cJoin, cUpd, cLast>>

pipeVars == <<plPc, plCfg, plTarget, plTmp, plStarted, plRc, plDl, plErr>>

moreVars == <<cacheVars, pipeVars>>

baseExtVars == <<searchVars, koVars, batchVars, parseVars>>

extVars == <<baseExtVars, moreVars>>

vars == <<storeVars, normVars, crawlVars, extVars>>

-----------------------------------------------------------------------------
(* Bounds of the model *)

MaxTagList == 2      \* longest tag list handed to replace_print_tags
MaxDetailId == 2     \* detail ids are 1..MaxDetailId
MaxLines == 4        \* longest text handed to a normalizer, in lines
MaxItems == 2        \* most anchors on one list page
MaxPages == 2        \* largest --max-pages
MaxCards == 1        \* the --max-cards cap of a capped run

-----------------------------------------------------------------------------
(* Strings *)

WS == " "

SeqsUpTo(S, n) == UNION {[1..k -> S] : k \in 0..n}

Range(s) == {s[i] : i \in 1..Len(s)}

RECURSIVE LStrip(_)
LStrip(s) == IF s # <<>> /\ Head(s) = WS THEN LStrip(Tail(s)) ELSE s

RECURSIVE RStrip(_)
RStrip(s) ==
    IF s # <<>> /\ s[Len(s)] = WS THEN RStrip(SubSeq(s, 1, Len(s) - 1)) ELSE s

\* str.strip()
Strip(s) == RStrip(LStrip(s))

RECURSIVE RemoveWS(_)
RemoveWS(s) ==
    IF s = <<>> THEN <<>>
    ELSE IF Head(s) = WS THEN RemoveWS(Tail(s))
    ELSE <<Head(s)>> \o RemoveWS(Tail(s))

\* str.lower() on the atoms of the tag alphabet
LowerAtom(a) == IF a = "A" THEN "a" ELSE IF a = "B" THEN "b" ELSE a

Lower(s) == [i \in 1..Len(s) |-> LowerAtom(s[i])]

\* normalize_tag: strip, drop one leading '#', drop all whitespace, lower-case
normalize_tag(tag) ==
    LET t == Strip(tag)
        u == IF t # <<>> /\ Head(t) = "#" THEN Tail(t) ELSE t
    IN  Lower(RemoveWS(u))

-----------------------------------------------------------------------------
(* The Store: tables are sets of rows; print_tags keeps its rows in rowid   *)
(* order so that a duplicated (print_id, tag_id) pair is representable.     *)

EmptyDb ==
    [prints |-> {}, texts |-> {}, tags |-> {}, print_tags |-> <<>>,
     seqPrints |-> 0, seqTags |-> 0]

\* INSERT INTO tags ... ON CONFLICT(tag) DO UPDATE SET normalized; SELECT tag_id
TagIdOf(d, tag) == (CHOOSE r \in d.tags : r.tag = tag).tag_id

upsert_tag(d, tag) ==
    IF \E r \in d.tags : r.tag = tag
    THEN [d EXCEPT !.tags =
             {IF r.tag = tag THEN [r EXCEPT !.normalized = normalize_tag(tag)] ELSE r
                : r \in d.tags}]
    ELSE [d EXCEPT !.tags = @ \cup {[tag_id |-> d.seqTags + 1, tag |-> tag,
                                     normalized |-> normalize_tag(tag)]},
                   !.seqTags = @ + 1]

\* INSERT OR IGNORE INTO print_tags(print_id, tag_id)
InsertPrintTag(d, print_id, tid) ==
    IF \E i \in 1..Len(d.print_tags) :
          d.print_tags[i] = [print_id |-> print_id, tag_id |-> tid]
    THEN d
    ELSE [d EXCEPT !.print_tags = Append(@, [print_id |-> print_id, tag_id |-> tid])]

RECURSIVE InsertTags(_, _, _)
InsertTags(d, print_id, tags) ==
    IF tags = <<>> THEN d
    ELSE LET d1 == upsert_tag(d, Head(tags))
         IN  InsertTags(InsertPrintTag(d1, print_id, TagIdOf(d1, Head(tags))),
                        print_id, Tail(tags))

RECURSIVE DeleteWhere(_, _)
DeleteWhere(rows, print_id) ==
    IF rows = <<>> THEN <<>>
    ELSE IF Head(rows).print_id = print_id THEN DeleteWhere(Tail(rows), print_id)
    ELSE <<Head(rows)>> \o DeleteWhere(Tail(rows), print_id)

\* a replace that forgets the DELETE: tags accumulate over re-scrapes
ReplacePrintTagsMutNoDelete(d, print_id, tags) == InsertTags(d, print_id, tags)

replace_print_tags(d, print_id, tags) ==
    InsertTags([d EXCEPT !.print_tags = DeleteWhere(@, print_id)], print_id, tags)

\* SELECT print_id FROM prints WHERE card_number=?
PrintIdOf(d, card_number) ==
    (CHOOSE r \in d.prints : r.card_number = Strip(card_number)).print_id

\* an upsert without the ON CONFLICT clause's key: every call makes a row
UpsertPrintMutAlwaysInsert(d, card_number, detail) ==
    [d EXCEPT !.prints = @ \cup {[print_id |-> d.seqPrints + 1,
                                  card_number |-> Strip(card_number),
                                  detail_id |-> detail.detail_id,
                                  fields |-> detail.fields]},
              !.seqPrints = @ + 1]

\* INSERT INTO prints ... ON CONFLICT(card_number) DO UPDATE SET <every other column>
upsert_print(d, card_number, detail) ==
    LET cn == Strip(card_number) IN
    IF \E r \in d.prints : r.card_number = cn
    THEN [d EXCEPT !.prints =
             {IF r.card_number = cn
              THEN [r EXCEPT !.detail_id = detail.detail_id, !.fields = detail.fields]
              ELSE r : r \in d.prints}]
    ELSE [d EXCEPT !.prints = @ \cup {[print_id |-> d.seqPrints + 1,
                                       card_number |-> cn,
                                       detail_id |-> detail.detail_id,
                                       fields |-> detail.fields]},
                   !.seqPrints = @ + 1]

\* INSERT INTO card_texts_ja ... ON CONFLICT(print_id) DO UPDATE
upsert_text_ja(d, print_id, name, raw_text) ==
    [d EXCEPT !.texts =
        {r \in @ : r.print_id # print_id}
        \cup {[print_id |-> print_id, name |-> name,
               effect_text |-> raw_text, raw_text |-> raw_text]}]

\* the tag strings print_id is associated with, through print_tags and tags
TagsOf(d, print_id) ==
    {r.tag : r \in {t \in d.tags :
        \E i \in 1..Len(d.print_tags) :
            /\ d.print_tags[i].print_id = print_id
            /\ d.print_tags[i].tag_id = t.tag_id}}

-----------------------------------------------------------------------------
(* The text normalizers.  A text is the sequence of its lines, a line the   *)
(* sequence of its blank-separated words; ":" is a colon (ASCII or full     *)
(* width) written without a blank before it, so <<"HP", ":", "x">> is       *)
(* "HP: x".  The labels are written in ASCII:                               *)
(*   CardType カードタイプ   Rarity レアリティ    Color 色                  *)
(*   CardNumber カードナンバー   Tag タグ   OshiSkill 推しスキル            *)
(*   SPOshiSkill SP推しスキル   BloomLevel Bloomレベル   Arts アーツ        *)
(*   BatonTouch バトンタッチ   Extra エクストラ   Keyword キーワード        *)
(*   Illustrator イラストレーター名   Product 収録商品                     *)
(*   ReleaseDate 発売日   UsableCards 【使用可能カード】                    *)
(*   StartDeck スタートデッキ   BoosterPack ブースターパック                *)
(*   EntryCup エントリーカップ   CardListJa カードリスト                    *)
(*   CardListJaDash ーカードリストー                                        *)

MERGE_LABELS == {"CardType", "Rarity", "Color", "LIFE", "HP", "CardNumber"}

REMOVE_LABELS == {"Illustrator", "CardNumber", "Product"}

ALL_LABELS ==
    MERGE_LABELS \cup {"Tag", "OshiSkill", "SPOshiSkill", "BloomLevel", "Arts",
                       "BatonTouch", "Extra", "Illustrator", "CardNumber",
                       "Keyword", "Product"}

\* the alternatives of hocg_tool2's SECTION_START_RE
TOOL_SECTION_START ==
    {"CardType", "Rarity", "Color", "LIFE", "HP", "OshiSkill", "SPOshiSkill",
     "Arts", "BatonTouch", "Extra", "Illustrator", "CardNumber", "Keyword"}

\* the alternatives of hocg_refine_update's SECTION_START_RE
REFINE_SECTION_START == TOOL_SECTION_START \cup {"BloomLevel"}

PRODUCT_KEYWORDS ==
    {"Accessories", "Boosters", "ReleaseDate", "UsableCards", "StartDeck",
     "BoosterPack", "EntryCup"}

NOISE_EXACT ==
    {<<"MENU">>, <<"CLOSE">>, <<"FOR", "BEGINNERS">>, <<"RULE/Q&A">>, <<"NEWS">>,
     <<"PRODUCT">>, <<"EVENT">>, <<"SHOP">>, <<"CARD", "LIST">>,
     <<"DECK", "RECIPE">>, <<"TOP">>, <<"CARDLIST">>, <<"CardListJa">>,
     <<"CardListJaDash">>}

HASH_WORDS == {"#a", "#b"}

\* [l.strip() for l in text.splitlines() if l.strip()]
SplitLines(text) ==
    LET NonBlank(l) == Strip(l) # <<>>
        kept == SelectSeq(text, NonBlank)
    IN  [i \in 1..Len(kept) |-> Strip(kept[i])]

\* line.replace("：", "").replace(":", "").strip()
normalize_label(line) ==
    LET NotColon(w) == w # ":" IN Strip(SelectSeq(line, NotColon))

\* label in SET, for a set of one-word labels
LabelIn(label, SET) == Len(label) = 1 /\ label[1] \in SET

\* s.startswith("#")
StartsWithHash(line) == line # <<>> /\ Head(line) \in HASH_WORDS

is_label_line(s) ==
    LET t == normalize_label(s)
    IN  \/ LabelIn(t, ALL_LABELS)
        \/ Len(t) >= 2 /\ t[1] \in ALL_LABELS

\* re.match of a SECTION_START_RE: the line begins with one of the labels
SectionStartMatch(line, STARTS) == line # <<>> /\ Head(line) \in STARTS

\* the index after the run of hashtag lines that begins at j
RECURSIVE TagRunEnd(_, _)
TagRunEnd(lines, j) ==
    IF j <= Len(lines) /\ StartsWithHash(Strip(lines[j]))
    THEN TagRunEnd(lines, j + 1) ELSE j

\* " ".join(lines[a..b-1])
RECURSIVE JoinLines(_, _, _)
JoinLines(lines, a, b) ==
    IF a >= b \/ a > Len(lines) THEN <<>>
    ELSE Strip(lines[a]) \o JoinLines(lines, a + 1, b)

\* any(k in look ...) with look = " ".join(lines[i + 1:i + 7])
is_real_section(lines, i) ==
    \E j \in (i + 1)..(i + 6) :
        j <= Len(lines) /\ \E w \in 1..Len(lines[j]) : lines[j][w] \in PRODUCT_KEYWORDS

RECURSIVE SkipToSection(_, _, _, _)
SkipToSection(lines, i, STARTS, normalized) ==
    IF i <= Len(lines)
       /\ ~SectionStartMatch(IF normalized THEN normalize_label(lines[i]) ELSE lines[i],
                             STARTS)
    THEN SkipToSection(lines, i + 1, STARTS, normalized) ELSE i

\* out.append(label if label != line and label in ALL_LABELS else line)
PlainLine(line, label) ==
    IF label # line /\ LabelIn(label, ALL_LABELS) THEN label ELSE line

\* the while loop of hocg_tool2.normalize_raw_text
RECURSIVE ToolLoop(_, _, _, _)
ToolLoop(lines, i, out, remove_private) ==
    IF i > Len(lines) THEN out
    ELSE
    LET line == lines[i]
        label == normalize_label(line)
        REMOVE == IF remove_private THEN REMOVE_LABELS ELSE {}
        j == TagRunEnd(lines, i + 1)
    IN  IF LabelIn(label, REMOVE)
        THEN IF i + 1 <= Len(lines)
                /\ ~LabelIn(normalize_label(lines[i + 1]), ALL_LABELS)
             THEN ToolLoop(lines, i + 2, out, remove_private)
             ELSE ToolLoop(lines, i + 1, out, remove_private)
        ELSE IF label = <<"Tag">> /\ j > i + 1
        THEN ToolLoop(lines, j, out \o <<<<"Tag">>, JoinLines(lines, i + 1, j)>>,
                      remove_private)
        ELSE IF LabelIn(label, MERGE_LABELS) /\ i + 1 <= Len(lines)
        THEN IF is_label_line(lines[i + 1])
             THEN ToolLoop(lines, i + 1, Append(out, label), remove_private)
             ELSE ToolLoop(lines, i + 2, Append(out, label \o lines[i + 1]),
                           remove_private)
        ELSE IF label = <<"Product">>
        THEN IF ~is_real_section(lines, i)
             THEN ToolLoop(lines, i + 1, Append(out, label), remove_private)
             ELSE ToolLoop(lines, SkipToSection(lines, i + 1, TOOL_SECTION_START, FALSE),
                           out, remove_private)
        ELSE ToolLoop(lines, i + 1, Append(out, PlainLine(line, label)), remove_private)

\* hocg_tool2.normalize_raw_text(text, remove_private=...)
tool_normalize_raw_text(text, remove_private) ==
    ToolLoop(SplitLines(text), 1, <<>>, remove_private)

\* the index of the first line whose label is in ALL_LABELS, 0 when there is none
RECURSIVE FirstLabelIdx(_, _)
FirstLabelIdx(cleaned, i) ==
    IF i > Len(cleaned) THEN 0
    ELSE IF LabelIn(normalize_label(cleaned[i]), ALL_LABELS) THEN i
    ELSE FirstLabelIdx(cleaned, i + 1)

\* the nearest line before index j + 1 that is no label, no noise and no hashtag
\* line, as a sequence of at most one line
RECURSIVE TitleBefore(_, _)
TitleBefore(cleaned, j) ==
    IF j < 1 THEN <<>>
    ELSE LET cand == cleaned[j]
             cand_label == normalize_label(cand)
         IN  IF \/ LabelIn(cand_label, ALL_LABELS)
                \/ cand_label \in NOISE_EXACT
                \/ StartsWithHash(cand)
             THEN TitleBefore(cleaned, j - 1)
             ELSE <<cand>>

\* cleaned = ([title] if title else []) + cleaned[first_label_idx:]
RelocateTitle(cleaned) ==
    LET first_label_idx == FirstLabelIdx(cleaned, 1)
    IN  IF first_label_idx > 1
        THEN TitleBefore(cleaned, first_label_idx - 1)
                \o SubSeq(cleaned, first_label_idx, Len(cleaned))
        ELSE cleaned

\* the while loop of hocg_refine_update.normalize_raw_text
RECURSIVE RefineLoop(_, _, _)
RefineLoop(cleaned, i, out) ==
    IF i > Len(cleaned) THEN out
    ELSE
    LET line == cleaned[i]
        label == normalize_label(line)
        j == TagRunEnd(cleaned, i + 1)
    IN  IF LabelIn(label, REMOVE_LABELS)
        THEN IF i + 1 <= Len(cleaned)
                /\ ~LabelIn(normalize_label(cleaned[i + 1]), ALL_LABELS)
             THEN RefineLoop(cleaned, i + 2, out)
             ELSE RefineLoop(cleaned, i + 1, out)
        ELSE IF label = <<"Tag">> /\ j > i + 1
        THEN RefineLoop(cleaned, j, out \o <<<<"Tag">>, JoinLines(cleaned, i + 1, j)>>)
        ELSE IF LabelIn(label, MERGE_LABELS) /\ i + 1 <= Len(cleaned)
        THEN IF is_label_line(cleaned[i + 1])
             THEN RefineLoop(cleaned, i + 1, Append(out, label))
             ELSE RefineLoop(cleaned, i + 2, Append(out, label \o cleaned[i + 1]))
        ELSE IF label = <<"Product">>
        THEN IF ~is_real_section(cleaned, i)
             THEN RefineLoop(cleaned, i + 1, Append(out, label))
             ELSE RefineLoop(cleaned,
                             SkipToSection(cleaned, i + 1, REFINE_SECTION_START, TRUE),
                             out)
        ELSE RefineLoop(cleaned, i + 1, Append(out, PlainLine(line, label)))

\* hocg_refine_update.normalize_raw_text(text)
refine_normalize_raw_text(text) ==
    IF text = <<>> THEN text
    ELSE LET NotNoise(l) == normalize_label(l) \notin NOISE_EXACT
             cleaned == RelocateTitle(SelectSeq(SplitLines(text), NotNoise))
             refined == RefineLoop(cleaned, 1, <<>>)
         IN  IF refined # <<>> THEN refined ELSE text

-----------------------------------------------------------------------------
(* The normalizers applied to a text (specification SpecNorm): the crawler  *)
(* stores tool_normalize_raw_text(page text, remove_private=True); a refine *)
(* pass replaces a stored text by refine_normalize_raw_text of it.          *)

\* the lines texts are built from: labels, a merged label-value line, hashtag
\* lines, a noise line, a product keyword and free text
NormLines ==
    {<<"HP">>, <<"HP", "x">>, <<"CardNumber">>, <<"Tag">>, <<"#a">>, <<"#b">>,
     <<"x">>, <<"MENU">>, <<"Illustrator">>, <<"Product">>, <<"Boosters">>}

NormTexts == SeqsUpTo(NormLines, MaxLines)

\* the normalizer variables of a run that normalizes nothing
NormIdle == nText = <<>> /\ nPrev = <<>> /\ nOrigin = "input" /\ nPasses = 0

\* the crawl variables of a run that does not crawl
CrawlIdle ==
    /\ args = <<>>
    /\ pc = "idle"
    /\ expIdx = 0
    /\ page = 0
    /\ items = <<>>
    /\ new_items = 0
    /\ seen_ids = {}
    /\ seen_total = 0
    /\ cur = <<>>
    /\ fut = <<>>
    /\ fetched = <<>>
    /\ pagesFetched = <<>>
    /\ zeroPage = <<>>
    /\ skipped = {}
    /\ listed = {}
    /\ abortCause = "none"

\* the Store variables of a run that stores nothing
StoreIdle ==
    /\ db = EmptyDb
    /\ dbC = EmptyDb
    /\ sUpserted = <<>>
    /\ sReturned = <<>>
    /\ sReplaced = <<>>

\* the search variables of a run that does not search
SearchIdle == sdb = <<>> /\ sq = <<>> /\ slimit = 0 /\ smode = "idle" /\ sres = <<>>

\* the translation variables of a run that writes no translation
KoIdle == ko = <<>> /\ koLast = <<>>

\* the batch variables of a run that counts no batch
BatchIdle ==
    /\ bpc = "idle" /\ bCap = 0 /\ bTotal = 0 /\ bLeft = 0
    /\ bUncommitted = 0 /\ bCommitted = 0 /\ bLost = 0

\* the parse variables of a run that parses no page by itself
ParseIdle == pIn = <<>> /\ pOut = <<>>

\* the cache variables of a run without the UI
CacheIdle ==
    /\ cIno = <<>> /\ cPath = <<>> /\ cTfDb = "None" /\ cEpoch = 0 /\ cTl = <<>>
    /\ cConns = <<>> /\ cJoin = <<>> /\ cUpd = "idle" /\ cLast = <<>>

\* the pipeline variables of a run without an update
PipeIdle ==
    /\ plPc = "idle" /\ plCfg = <<>> /\ plTarget = "none" /\ plTmp = "none"
    /\ plStarted = <<>> /\ plRc = <<>> /\ plDl = <<>> /\ plErr = "none"

MoreIdle == CacheIdle /\ PipeIdle

ExtIdle == SearchIdle /\ KoIdle /\ BatchIdle /\ ParseIdle /\ MoreIdle

InitNorm ==
    /\ nText \in NormTexts
    /\ nPrev = <<>>
    /\ nOrigin = "input"
    /\ nPasses = 0
    /\ StoreIdle
    /\ CrawlIdle
    /\ ExtIdle

\* parse_detail: "raw_text": normalize_raw_text(raw_full, remove_private=True)
NormCrawl ==
    /\ nOrigin = "input"
    /\ nPasses = 0
    /\ nPrev' = nText
    /\ nText' = tool_normalize_raw_text(nText, TRUE)
    /\ nOrigin' = "crawled"
    /\ UNCHANGED <<nPasses, storeVars, crawlVars, extVars>>

\* refine_db / _refine_chunk: cleaned = normalize_raw_text(raw); the row is
\* updated to cleaned when cleaned != raw
NormRefine ==
    /\ nPasses < 2
    /\ nPrev' = nText
    /\ nText' = refine_normalize_raw_text(nText)
    /\ nPasses' = nPasses + 1
    /\ UNCHANGED <<nOrigin, storeVars, crawlVars, extVars>>

NextNorm == NormCrawl \/ NormRefine

SpecNorm == InitNorm /\ [][NextNorm]_vars

(* C2: the refine normalizer is idempotent: a second refine pass over any   *)
(* text returns the text the first pass returned.                           *)
C2_RefineIdempotent == nPasses = 2 => nText = nPrev

(* C3: a refine pass over the text the crawler stored changes nothing, so   *)
(* refine updates no row the crawler has just written.                      *)
C3_RefineNoOpOnCrawled == (nOrigin = "crawled" /\ nPasses = 1) => nText = nPrev

-----------------------------------------------------------------------------
(* The Store primitives called in any order (specification SpecStore).      *)
(* Card numbers are what the crawler passes, a pattern match of CARDNO_RE,  *)
(* with and without surrounding whitespace; print ids are ids that          *)
(* upsert_print returned.                                                   *)

CardCores == {"hBP01-001", "hSD05-009"}

RawCardNumbers == {<<c>> : c \in CardCores} \cup {<<WS, c, WS>> : c \in CardCores}

StrippedNumbers == {Strip(c) : c \in RawCardNumbers}

\* the scraped columns of detail page i (rarity, color, name, ...) are one value
FieldsOf(i) == <<"fields", i>>

StoreDetails == {[detail_id |-> i, fields |-> FieldsOf(i)] : i \in 1..MaxDetailId}

TagStrings == {<<"#", "a">>, <<"#", "B">>}

TagLists == SeqsUpTo(TagStrings, MaxTagList)

PrintIds(d) == {r.print_id : r \in d.prints}

InitStore ==
    /\ db = EmptyDb
    /\ dbC = EmptyDb
    /\ sUpserted = [c \in StrippedNumbers |-> 0]
    /\ sReturned = [c \in StrippedNumbers |-> {}]
    /\ sReplaced = <<>>
    /\ NormIdle
    /\ CrawlIdle
    /\ ExtIdle

StoreUpsertPrint(card_number, detail) ==
    LET d1 == upsert_print(db, card_number, detail)
        c  == Strip(card_number)
    IN  /\ db' = d1
        /\ sUpserted' = [sUpserted EXCEPT ![c] = IF @ < 2 THEN @ + 1 ELSE @]
        /\ sReturned' = [sReturned EXCEPT ![c] = @ \cup {PrintIdOf(d1, card_number)}]
        /\ UNCHANGED <<dbC, sReplaced, normVars, extVars, crawlVars>>

StoreReplacePrintTags(print_id, tags) ==
    /\ print_id \in PrintIds(db)
    /\ db' = replace_print_tags(db, print_id, tags)
    /\ sReplaced' = (print_id :> [tags |-> Range(tags),
                                   swapped |-> /\ TagsOf(db, print_id) # {}
                                               /\ TagsOf(db, print_id) \cap Range(tags) = {}])
                        @@ sReplaced
    /\ UNCHANGED <<dbC, sUpserted, sReturned, normVars, extVars, crawlVars>>

NextStore ==
    \/ \E c \in RawCardNumbers, d \in StoreDetails : StoreUpsertPrint(c, d)
    \/ \E p \in PrintIds(db), t \in TagLists : StoreReplacePrintTags(p, t)

SpecStore == InitStore /\ [][NextStore]_vars

-----------------------------------------------------------------------------
(* C5: upserting a card_number again yields no second prints row and        *)
(* returns the print_id it returned before; the prints rows are exactly one *)
(* per distinct stripped card_number upserted; no stored card_number is     *)
(* empty.                                                                   *)
C5_UpsertIdempotent ==
    /\ Cardinality(db.prints) = Cardinality({c \in StrippedNumbers : sUpserted[c] > 0})
    /\ \A c \in StrippedNumbers :
          /\ sUpserted[c] > 0 => Cardinality({r \in db.prints : r.card_number = c}) = 1
          /\ Cardinality(sReturned[c]) <= 1
    /\ \A r \in db.prints : r.card_number # <<>>

\* every card number was upserted at least twice
C5_Witness == \A c \in StrippedNumbers : sUpserted[c] = 2

(* C6: after replace_print_tags(id, T) the tags of id are exactly the       *)
(* elements of T, for every print at once (so no other print's tags moved), *)
(* a print never replaced has no tags, and print_tags holds no pair twice.  *)
C6_TagSnapshot ==
    /\ \A p \in PrintIds(db) :
          TagsOf(db, p) = IF p \in DOMAIN sReplaced THEN sReplaced[p].tags ELSE {}
    /\ \A i, j \in 1..Len(db.print_tags) :
          db.print_tags[i] = db.print_tags[j] => i = j

\* a print whose tags were replaced by a disjoint, non-empty list, and another
\* print that holds tags, and a print whose tags were replaced by the empty list
C6_Witness ==
    /\ \E p \in DOMAIN sReplaced, q \in DOMAIN sReplaced :
          /\ p # q
          /\ sReplaced[p].swapped
          /\ sReplaced[p].tags # {}
          /\ sReplaced[q].swapped
          /\ sReplaced[q].tags = {}

-----------------------------------------------------------------------------
(* The crawler: cmd_scrape, scrape_expansion, process_list_page and         *)
(* _handle_detail (specification Spec).  The site is the environment: a     *)
(* list-page fetch returns any page of at most MaxItems anchors or fails, a *)
(* detail fetch returns one of the pages of that id or fails.  A run with   *)
(* --expansion all that finds no set code crawls the unfiltered listing,    *)
(* which is the run of one set code.  The set_code column is left out.      *)

Expansions == <<"hBP01", "hSD05">>

DetailIds == 1..MaxDetailId

BatchSize == 50

Args ==
    [expansion : {"all", "hBP01"}, workers : {1, 2},
     max_cards : {0, MaxCards}, max_pages : {1, MaxPages}]

\* the set codes cmd_scrape runs scrape_expansion for, in order
RunList == IF args.expansion = "all" THEN Expansions ELSE <<args.expansion>>

\* the card number the list page shows in the anchor of detail id d
ListNumber(d) == IF d % 2 = 1 THEN <<"hBP01-001">> ELSE <<"hSD05-009">>

\* an anchor a[href*='cardlist/?id='] of a list page: its id and the CARDNO_RE
\* match of its text, <<>> when the text holds none (an anchor that is dropped
\* whatever its id)
Anchors == {[card_id |-> 1, text |-> <<>>]} \cup
           {[card_id |-> d, text |-> ListNumber(d)] : d \in DetailIds}

ListPages == SeqsUpTo(Anchors, MaxItems)

\* parse_list_page: the anchors with a card number, as ListItems
parse_list_page(html) ==
    LET HasNumber(a) == a.text # <<>>
        kept == SelectSeq(html, HasNumber)
    IN  [i \in 1..Len(kept) |-> [card_id |-> kept[i].card_id, card_number |-> kept[i].text]]

\* what the detail page of id d holds besides its card number
PageName(d) == <<"n1", "n2", "n3", "n4", "n5">>[d]

PageTags(d) == IF d % 2 = 1 THEN <<<<"#", "a">>>> ELSE <<<<"#", "B">>>>

PageText(d) == <<<<PageName(d)>>, <<"HP">>, <<"x">>, <<"Illustrator">>, <<"y">>>>

\* a detail page: label is the CARDNO_RE match inside its labelled card-number
\* field and first the first CARDNO_RE match anywhere in its text (<<>>: none)
DetailPages(d) ==
    {[id |-> d, label |-> <<>>, first |-> <<>>]}
    \cup {[id |-> d, label |-> <<c>>, first |-> <<c>>] : c \in CardCores}
    \cup {[id |-> d, label |-> <<>>, first |-> <<c>>] : c \in CardCores}

None == [ok |-> FALSE]

Err == [ok |-> FALSE, err |-> TRUE]

parse_detail(pg, fallback_card_no) ==
    LET card_no == IF pg.label # <<>> THEN pg.label ELSE pg.first
    IN  IF card_no = <<>> THEN None
        ELSE [ok |-> TRUE,
              name |-> PageName(pg.id),
              card_number |-> IF card_no # <<>> THEN card_no ELSE fallback_card_no,
              fields |-> FieldsOf(pg.id),
              tags |-> PageTags(pg.id),
              raw_text |-> tool_normalize_raw_text(PageText(pg.id), TRUE)]

NoCur == [detail |-> None, card_id |-> 0, it_card_number |-> <<>>, print_id |-> 0]

NoFut == <<>>

InitCrawl ==
    /\ args \in Args
    /\ pc = "start"
    /\ expIdx = 1
    /\ page = 0
    /\ items = <<>>
    /\ new_items = 0
    /\ seen_ids = {}
    /\ seen_total = 0
    /\ cur = NoCur
    /\ fut = NoFut
    /\ fetched = [d \in DetailIds |-> 0]
    /\ pagesFetched = [e \in 1..Len(Expansions) |-> 0]
    /\ zeroPage = [e \in 1..Len(Expansions) |-> 0]
    /\ skipped = {}
    /\ listed = {}
    /\ abortCause = "none"
    /\ db = EmptyDb
    /\ dbC = EmptyDb
    /\ sUpserted = <<>>
    /\ sReturned = <<>>
    /\ sReplaced = <<>>
    /\ NormIdle
    /\ ExtIdle

\* an exception nothing catches: the traceback ends the process and its memory
\* goes, the connection goes away uncommitted and the open transaction is
\* rolled back; the pool threads finish what was submitted
Abort(cause) ==
    /\ pc' = "aborted"
    /\ abortCause' = cause
    /\ db' = dbC
    /\ items' = <<>>
    /\ cur' = NoCur
    /\ page' = 0
    /\ new_items' = 0
    /\ seen_ids' = {}
    /\ seen_total' = 0
    /\ UNCHANGED <<dbC, args, expIdx, fut, fetched, pagesFetched, zeroPage, skipped,
                   listed, histVars, normVars, extVars>>

\* cmd_scrape: with --expansion all, fetch the list of set codes
FetchExpansions ==
    /\ pc = "start"
    /\ pc' = "exp_loop"
    /\ UNCHANGED <<storeVars, normVars, extVars, args, expIdx, page, items, new_items, seen_ids,
                   seen_total, cur, fut, fetched, pagesFetched, zeroPage, skipped,
                   listed, abortCause>>

FetchExpansionsFail ==
    /\ pc = "start"
    /\ args.expansion = "all"
    /\ Abort("list_fetch")

\* args.max_cards and total >= args.max_cards (and, for comparison, a crawler
\* that never looks at max_cards)
CapReachedMutNever(total) == FALSE

CapReached(total) == args.max_cards > 0 /\ total >= args.max_cards

\* if args._seen_total % 50 == 0: conn.commit() (and, for comparison, a
\* crawler that commits only at the end of a list page)
BatchDueMutNever(total) == FALSE

BatchDue(total) == total % BatchSize = 0

\* cmd_scrape: if args.max_cards and args._seen_total >= args.max_cards: break
CapAtLoopHead == args.expansion = "all" /\ CapReached(seen_total)

\* a list page is due: the first page of the next set code, or the next page
ListPageDue ==
    \/ pc = "exp_loop" /\ expIdx <= Len(RunList) /\ ~CapAtLoopHead
    \/ pc = "page_loop"

\* scrape_expansion fetches a list page and process_list_page parses it
FetchListPage ==
    /\ ListPageDue
    /\ page' = IF pc = "exp_loop" THEN 1 ELSE page + 1
    /\ \E html \in ListPages :
          /\ items' = parse_list_page(html)
          /\ listed' = listed \cup {it.card_id : it \in Range(parse_list_page(html))}
    /\ new_items' = 0
    /\ pc' = IF args.workers > 1 THEN "submit" ELSE "items"
    /\ pagesFetched' = [pagesFetched EXCEPT ![expIdx] = @ + 1]
    /\ UNCHANGED <<storeVars, normVars, extVars, args, expIdx, seen_ids, seen_total, cur, fut,
                   fetched, zeroPage, skipped, abortCause>>

\* fetch raises on a list page: nothing catches it
FetchListPageFail ==
    /\ ListPageDue
    /\ Abort("list_fetch")

\* the for loop over the set codes is over, or the cap ends it
ExpLoopExit ==
    /\ pc = "exp_loop"
    /\ expIdx > Len(RunList) \/ CapAtLoopHead
    /\ pc' = "finish"
    /\ UNCHANGED <<storeVars, normVars, extVars, args, expIdx, page, items, new_items, seen_ids,
                   seen_total, cur, fut, fetched, pagesFetched, zeroPage, skipped,
                   listed, abortCause>>

\* what becomes of an exception of a detail fetch: without an except clause it
\* would leave process_list_page; the except clause logs it and continues
OnDetailFetchErrorMutRaise == "raise"

OnDetailFetchError == "skip"

\* what becomes of an exception of a Store write in _handle_detail: an except
\* clause around the call would go on with the next item; there is none, so
\* the exception leaves process_list_page
OnStoreWriteErrorMutSkip == "skip"

OnStoreWriteError == "raise"

\* scrape_expansion: if new_items == 0: break (a loop without the test never
\* breaks)
PageLoopBreaksMutNever(n) == FALSE

PageLoopBreaks(n) == n = 0

\* if it.card_id in args._seen_ids: continue (without the set no id is ever
\* taken as seen)
AlreadySeenMutNever(card_id) == FALSE

AlreadySeen(card_id) == card_id \in seen_ids

\* where process_list_page goes on after an item
ItemLoop == IF args.workers > 1 THEN "collect" ELSE "items"

\* workers = 1: an item whose id was seen is passed over
ItemSeen ==
    /\ pc = "items"
    /\ items # <<>>
    /\ AlreadySeen(Head(items).card_id)
    /\ items' = Tail(items)
    /\ UNCHANGED <<storeVars, normVars, extVars, args, pc, expIdx, page, new_items, seen_ids,
                   seen_total, cur, fut, fetched, pagesFetched, zeroPage, skipped,
                   listed, abortCause>>

\* workers = 1: the detail fetch of a new item raises
ItemFetchFail ==
    /\ pc = "items"
    /\ items # <<>>
    /\ ~AlreadySeen(Head(items).card_id)
    /\ IF OnDetailFetchError = "skip"
       THEN /\ seen_ids' = seen_ids \cup {Head(items).card_id}
            /\ new_items' = new_items + 1
            /\ fetched' = [fetched EXCEPT ![Head(items).card_id] = @ + 1]
            /\ skipped' = skipped \cup {Head(items).card_id}
            /\ items' = Tail(items)
            /\ UNCHANGED <<storeVars, normVars, extVars, args, pc, expIdx, page, seen_total, cur,
                           fut, pagesFetched, zeroPage, listed, abortCause>>
       ELSE Abort("detail_fetch")

\* workers = 1: the detail page of a new item is fetched and parsed, and
\* _handle_detail returns 0 for a page without card number
ItemFetch ==
    /\ pc = "items"
    /\ items # <<>>
    /\ ~AlreadySeen(Head(items).card_id)
    /\ seen_ids' = seen_ids \cup {Head(items).card_id}
    /\ new_items' = new_items + 1
    /\ fetched' = [fetched EXCEPT ![Head(items).card_id] = @ + 1]
    /\ items' = Tail(items)
    /\ \E pg \in DetailPages(Head(items).card_id) :
          LET detail == parse_detail(pg, Head(items).card_number)
          IN  IF detail = None
              THEN /\ skipped' = skipped \cup {pg.id}
                   /\ UNCHANGED <<pc, cur>>
              ELSE /\ cur' = [detail |-> detail, card_id |-> pg.id,
                              it_card_number |-> Head(items).card_number,
                              print_id |-> 0]
                   /\ pc' = "h_print"
                   /\ UNCHANGED skipped
    /\ UNCHANGED <<storeVars, normVars, extVars, args, expIdx, page, seen_total, fut,
                   pagesFetched, zeroPage, listed, abortCause>>

\* _handle_detail: print_id = upsert_print(conn, detail.get("card_number") or
\* it_card_number, detail), with detail["detail_id"] = int(it_card_id)
HandlePrint ==
    /\ pc = "h_print"
    /\ LET number == IF cur.detail.card_number # <<>> THEN cur.detail.card_number
                     ELSE cur.it_card_number
           d1 == upsert_print(db, number,
                              [detail_id |-> cur.card_id, fields |-> cur.detail.fields])
       IN  /\ db' = d1
           /\ cur' = [cur EXCEPT !.print_id = PrintIdOf(d1, number)]
    /\ pc' = "h_text"
    /\ UNCHANGED <<dbC, histVars, normVars, extVars, args, expIdx, page, items, new_items,
                   seen_ids, seen_total, fut, fetched, pagesFetched, zeroPage, skipped,
                   listed, abortCause>>

\* _handle_detail: upsert_text_ja(conn, print_id, name, raw_text)
HandleText ==
    /\ pc = "h_text"
    /\ db' = upsert_text_ja(db, cur.print_id, cur.detail.name, cur.detail.raw_text)
    /\ pc' = "h_tags"
    /\ UNCHANGED <<dbC, histVars, normVars, extVars, args, expIdx, page, items, new_items,
                   seen_ids, seen_total, cur, fut, fetched, pagesFetched, zeroPage,
                   skipped, listed, abortCause>>

\* _handle_detail: replace_print_tags(conn, print_id, tags); return 1
HandleTags ==
    /\ pc = "h_tags"
    /\ db' = replace_print_tags(db, cur.print_id, cur.detail.tags)
    /\ pc' = "added"
    /\ UNCHANGED <<dbC, histVars, normVars, extVars, args, expIdx, page, items, new_items,
                   seen_ids, seen_total, cur, fut, fetched, pagesFetched, zeroPage,
                   skipped, listed, abortCause>>

\* one of the three Store writes of _handle_detail raises
WriteFail ==
    /\ pc \in {"h_print", "h_text", "h_tags"}
    /\ IF OnStoreWriteError = "raise"
       THEN Abort("store_write")
       ELSE /\ pc' = ItemLoop
            /\ cur' = NoCur
            /\ UNCHANGED <<storeVars, normVars, extVars, args, expIdx, page, items, new_items,
                           seen_ids, seen_total, fut, fetched, pagesFetched, zeroPage,
                           skipped, listed, abortCause>>

\* if added: args._seen_total += 1; the cap returns (new_items, 1), which ends
\* the run and the life of the locals; every BatchSize cards conn.commit()
Added ==
    /\ pc = "added"
    /\ seen_total' = seen_total + 1
    /\ cur' = NoCur
    /\ IF CapReached(seen_total + 1)
       THEN /\ pc' = IF args.workers > 1 THEN "drain" ELSE "finish"
            /\ page' = 0
            /\ items' = <<>>
            /\ new_items' = 0
            /\ UNCHANGED dbC
       ELSE /\ pc' = ItemLoop
            /\ dbC' = IF BatchDue(seen_total + 1) THEN db ELSE dbC
            /\ UNCHANGED <<page, items, new_items>>
    /\ UNCHANGED <<db, histVars, normVars, extVars, args, expIdx, seen_ids, fut, fetched,
                   pagesFetched, zeroPage, skipped, listed, abortCause>>

AllTaken == \A d \in DOMAIN fut : fut[d].st = "taken"

\* process_list_page ends: conn.commit(); return new_items, 0; scrape_expansion
\* breaks on a page without new items and stops after max_pages pages
PageEnd ==
    /\ \/ pc = "items" /\ items = <<>>
       \/ pc = "collect" /\ AllTaken
    /\ dbC' = db
    /\ fut' = NoFut
    /\ zeroPage' = IF new_items = 0 /\ zeroPage[expIdx] = 0
                   THEN [zeroPage EXCEPT ![expIdx] = page] ELSE zeroPage
    /\ IF PageLoopBreaks(new_items) \/ page >= args.max_pages
       THEN expIdx' = expIdx + 1 /\ pc' = "exp_loop" /\ page' = 0
       ELSE UNCHANGED <<expIdx, page>> /\ pc' = "page_loop"
    /\ new_items' = 0
    /\ UNCHANGED <<db, histVars, normVars, extVars, args, items, seen_ids, seen_total, cur,
                   fetched, pagesFetched, skipped, listed, abortCause>>

\* cmd_scrape: conn.commit(); conn.close(); return 0
Finish ==
    /\ pc = "finish"
    /\ dbC' = db
    /\ pc' = "done"
    /\ UNCHANGED <<db, histVars, normVars, extVars, args, expIdx, page, items, new_items,
                   seen_ids, seen_total, cur, fut, fetched, pagesFetched, zeroPage,
                   skipped, listed, abortCause>>

\* workers > 1: the submit loop passes over an item whose id was seen
SubmitSeen ==
    /\ pc = "submit"
    /\ items # <<>>
    /\ AlreadySeen(Head(items).card_id)
    /\ items' = Tail(items)
    /\ UNCHANGED <<storeVars, normVars, extVars, args, pc, expIdx, page, new_items, seen_ids,
                   seen_total, cur, fut, fetched, pagesFetched, zeroPage, skipped,
                   listed, abortCause>>

\* workers > 1: ex.submit(_fetch_detail_worker, ...) for a new item
SubmitNew ==
    /\ pc = "submit"
    /\ items # <<>>
    /\ ~AlreadySeen(Head(items).card_id)
    /\ seen_ids' = seen_ids \cup {Head(items).card_id}
    /\ new_items' = new_items + 1
    /\ fut' = (Head(items).card_id :>
                  [st |-> "pending", card_number |-> Head(items).card_number,
                   res |-> None]) @@ fut
    /\ items' = Tail(items)
    /\ UNCHANGED <<storeVars, normVars, extVars, args, pc, expIdx, page, seen_total, cur,
                   fetched, pagesFetched, zeroPage, skipped, listed, abortCause>>

\* workers > 1: every item is submitted; for f in as_completed(futures)
SubmitEnd ==
    /\ pc = "submit"
    /\ items = <<>>
    /\ pc' = "collect"
    /\ UNCHANGED <<storeVars, normVars, extVars, args, expIdx, page, items, new_items, seen_ids,
                   seen_total, cur, fut, fetched, pagesFetched, zeroPage, skipped,
                   listed, abortCause>>

Running == {d \in DOMAIN fut : fut[d].st = "running"}

\* a pool thread takes a queued future and starts _fetch_detail_worker
WorkerStart(d) ==
    /\ pc # "killed"
    /\ d \in DOMAIN fut
    /\ fut[d].st = "pending"
    /\ Cardinality(Running) < args.workers
    /\ fut' = [fut EXCEPT ![d].st = "running"]
    /\ fetched' = [fetched EXCEPT ![d] = @ + 1]
    /\ UNCHANGED <<storeVars, normVars, extVars, args, pc, expIdx, page, items, new_items,
                   seen_ids, seen_total, cur, pagesFetched, zeroPage, skipped, listed,
                   abortCause>>

\* _fetch_detail_worker: fetch raises, and the future holds the exception
WorkerFail(d) ==
    /\ pc # "killed"
    /\ d \in DOMAIN fut
    /\ fut[d].st = "running"
    /\ fut' = [fut EXCEPT ![d].st = "done", ![d].res = Err]
    /\ UNCHANGED <<storeVars, normVars, extVars, args, pc, expIdx, page, items, new_items,
                   seen_ids, seen_total, cur, fetched, pagesFetched, zeroPage, skipped,
                   listed, abortCause>>

\* _fetch_detail_worker that persists the print it has parsed on the pool
\* thread before it returns
WorkerFinishMutPersist(d) ==
    /\ pc # "killed"
    /\ d \in DOMAIN fut
    /\ fut[d].st = "running"
    /\ \E pg \in DetailPages(d) :
          LET res == parse_detail(pg, fut[d].card_number)
          IN  /\ fut' = [fut EXCEPT ![d].st = "done", ![d].res = res]
              /\ db' = IF res = None THEN db
                       ELSE upsert_print(db, fut[d].card_number,
                                         [detail_id |-> d, fields |-> res.fields])
    /\ UNCHANGED <<dbC, histVars, normVars, extVars, args, pc, expIdx, page, items,
                   new_items, seen_ids, seen_total, cur, fetched, pagesFetched, zeroPage,
                   skipped, listed, abortCause>>

\* _fetch_detail_worker fetches the page, parses it and returns the detail
WorkerFinish(d) ==
    /\ pc # "killed"
    /\ d \in DOMAIN fut
    /\ fut[d].st = "running"
    /\ \E pg \in DetailPages(d) :
          fut' = [fut EXCEPT ![d].st = "done",
                            ![d].res = parse_detail(pg, fut[d].card_number)]
    /\ UNCHANGED <<storeVars, normVars, extVars, args, pc, expIdx, page, items, new_items,
                   seen_ids, seen_total, cur, fetched, pagesFetched, zeroPage, skipped,
                   listed, abortCause>>

\* workers > 1: as_completed yields a finished future; f.result() raises what
\* the fetch raised, else _handle_detail gets the detail
Collect(d) ==
    /\ pc = "collect"
    /\ d \in DOMAIN fut
    /\ fut[d].st = "done"
    /\ IF fut[d].res = Err /\ OnDetailFetchError # "skip"
       THEN Abort("detail_fetch")
       ELSE /\ fut' = [fut EXCEPT ![d] = [st |-> "taken", card_number |-> <<>>,
                                         res |-> None]]
            /\ IF fut[d].res = Err \/ fut[d].res = None
               THEN /\ skipped' = skipped \cup {d}
                    /\ UNCHANGED <<pc, cur>>
               ELSE /\ cur' = [detail |-> fut[d].res, card_id |-> d,
                               it_card_number |-> fut[d].card_number, print_id |-> 0]
                    /\ pc' = "h_print"
                    /\ UNCHANGED skipped
            /\ UNCHANGED <<storeVars, normVars, extVars, args, expIdx, page, items, new_items,
                           seen_ids, seen_total, fetched, pagesFetched, zeroPage,
                           listed, abortCause>>

\* workers > 1: the return at the cap leaves the with block, whose exit waits
\* for every submitted future
Drain ==
    /\ pc = "drain"
    /\ \A d \in DOMAIN fut : fut[d].st \in {"done", "taken"}
    /\ pc' = "finish"
    /\ fut' = NoFut
    /\ UNCHANGED <<storeVars, normVars, extVars, args, expIdx, page, items, new_items, seen_ids,
                   seen_total, cur, fetched, pagesFetched, zeroPage, skipped, listed,
                   abortCause>>

\* the process is interrupted: its memory and what was not committed are lost
Kill ==
    /\ pc \notin {"done", "aborted", "killed"}
    /\ pc' = "killed"
    /\ db' = dbC
    /\ items' = <<>>
    /\ cur' = NoCur
    /\ fut' = NoFut
    /\ page' = 0
    /\ new_items' = 0
    /\ seen_ids' = {}
    /\ seen_total' = 0
    /\ UNCHANGED <<dbC, histVars, normVars, extVars, args, expIdx, fetched, pagesFetched,
                   zeroPage, skipped, listed, abortCause>>

\* the steps of the main thread that no failure cuts short
MainStep ==
    \/ FetchExpansions
    \/ FetchListPage
    \/ ExpLoopExit
    \/ ItemSeen
    \/ ItemFetch
    \/ HandlePrint
    \/ HandleText
    \/ HandleTags
    \/ Added
    \/ PageEnd
    \/ Finish
    \/ SubmitSeen
    \/ SubmitNew
    \/ SubmitEnd
    \/ \E d \in DetailIds : Collect(d)
    \/ Drain

\* the steps of the pool threads
WorkerStep ==
    \/ \E d \in DetailIds : WorkerStart(d)
    \/ \E d \in DetailIds : WorkerFail(d)
    \/ \E d \in DetailIds : WorkerFinish(d)

\* the failures of the site and of the Store, and the interruption of the run
Fault ==
    \/ FetchExpansionsFail
    \/ FetchListPageFail
    \/ ItemFetchFail
    \/ WriteFail
    \/ Kill

Next == MainStep \/ WorkerStep \/ Fault

Spec == InitCrawl /\ [][Next]_vars

\* the run goes on: as long as the main thread or a pool thread has a step to
\* take, the interpreter executes one of them
SpecLive == Spec /\ WF_vars(MainStep \/ WorkerStep)

(* C1: in one run no detail page is fetched twice, whatever the list pages  *)
(* and set codes list, sequentially and with a pool; this includes the ids  *)
(* whose fetch failed or whose page held no card number.                    *)
C1_FetchAtMostOnce == \A d \in DetailIds : fetched[d] <= 1

\* a pooled run comes, on the first page of the second set code, to an id
\* that was fetched once and skipped while the first set code was crawled
C1_Witness ==
    /\ pc = "submit"
    /\ expIdx = 2
    /\ items # <<>>
    /\ Head(items).card_id \in skipped
    /\ fetched[Head(items).card_id] = 1

(* C4: once a list page of a set code yielded no new id, no further list    *)
(* page of that set code is fetched and the crawl has left the set code; no *)
(* set code gets more than max_pages list-page fetches; the run always      *)
(* ends; and when all set codes are crawled, the first page of the next set *)
(* code is then fetched, unless the run dies first.                         *)
C4_PaginationEnds ==
    /\ [](\A e \in 1..Len(Expansions) :
            /\ pagesFetched[e] <= args.max_pages
            /\ zeroPage[e] > 0 => pagesFetched[e] = zeroPage[e] /\ expIdx > e)
    /\ <>(pc \in {"done", "aborted", "killed"})
    /\ \A e \in 1..(Len(Expansions) - 1) :
          (zeroPage[e] > 0 /\ args.expansion = "all")
             ~> (pagesFetched[e + 1] > 0 \/ pc \in {"aborted", "killed"})

\* crawling all set codes, the first set code ended on a page without new ids
\* before max_pages was reached, and the second set code has been started
C4_Witness ==
    /\ args.expansion = "all"
    /\ zeroPage[1] > 0
    /\ zeroPage[1] < args.max_pages
    /\ pagesFetched[2] > 0

(* C7: every committed prints row has exactly one card_texts_ja row, and    *)
(* its fields, its name and source text and its tags all come from the one  *)
(* detail page its detail_id names: in no committed state is a card stored  *)
(* in part, or with parts of two scrapes.                                   *)
C7_CardAtomic ==
    \A r \in dbC.prints :
        LET texts == {t \in dbC.texts : t.print_id = r.print_id}
            d == r.detail_id
        IN  /\ Cardinality(texts) = 1
            /\ \A t \in texts :
                  /\ t.name = PageName(d)
                  /\ t.raw_text = tool_normalize_raw_text(PageText(d), TRUE)
            /\ r.fields = FieldsOf(d)
            /\ TagsOf(dbC, r.print_id) = TagsOf(replace_print_tags(EmptyDb, 0, PageTags(d)), 0)

\* the crawl is between upsert_print and upsert_text_ja of a card whose number
\* a committed print of another detail page holds: the open transaction has
\* the new fields with the old text and tags, the committed state has not
C7_Witness ==
    /\ pc = "h_text"
    /\ \E r \in dbC.prints : r.print_id = cur.print_id /\ r.detail_id # cur.card_id
    /\ \E r \in db.prints : r.print_id = cur.print_id /\ r.detail_id = cur.card_id

(* C8: a Store write error while a card is persisted does not end the run.  *)
C8_WriteErrorItemOnly == abortCause # "store_write"

(* C9: no exception of a detail fetch ends the run; the Store holds no row  *)
(* of an id that was skipped because its fetch failed or its page had no    *)
(* card number; and an uncapped run that ends has fetched the detail page   *)
(* of every id its list pages listed.                                       *)
C9_SkipAndGoOn ==
    /\ abortCause # "detail_fetch"
    /\ \A r \in db.prints \cup dbC.prints : r.detail_id \notin skipped
    /\ (pc = "done" /\ args.max_cards = 0) =>
          \A d \in listed : fetched[d] = 1

\* an uncapped run is over: one id was skipped, another one is stored
C9_Witness ==
    /\ pc = "done"
    /\ args.max_cards = 0
    /\ skipped # {}
    /\ \E r \in dbC.prints : r.detail_id \notin skipped

(* C10: persisting a card never replaces the prints row that the detail     *)
(* page of another detail id stored under the same card_number.             *)
C10_NoSilentOverwrite ==
    [][pc = "h_print" =>
          \A r \in db.prints : \A r2 \in db'.prints :
              r.card_number = r2.card_number => r.detail_id = r2.detail_id]_vars

-----------------------------------------------------------------------------
(* The search engine of app/services/db.py (specification SpecSearch).  In  *)
(* this part a string is the sequence of its characters, one atom each; the *)
(* alias terms of app/constants.py are written with one atom per syllable.  *)

\* TAG_ALIAS: key -> values
TAG_ALIAS ==
    [k \in {<<"dong", "mul", "gwi">>, <<"in", "gwon", "eop", "eum">>} |->
        IF k = <<"dong", "mul", "gwi">>
        THEN <<<<"in", "gwon", "eop", "eum">>>>
        ELSE <<<<"dong", "mul", "gwi">>>>]

\* the characters _normalize_term deletes (tab, newline and carriage return
\* are not in the alphabet of the model)
PY_NORMALIZE_CHARS == {WS, "#", "_", "-", "/", "|", ",", "."}

\* the characters the REPLACE chain of _sql_normalize_expr deletes
SQL_NORMALIZE_CHARS == {WS, "#", "_", "-", "/", ","}

\* the separators of _TOKEN_SPLIT_RE
TOKEN_SPLIT_CHARS == {WS, ",", "|", "/"}

\* s without the characters of the set chars
Without(s, chars) ==
    LET Kept(c) == c \notin chars
    IN  SelectSeq(s, Kept)

\* _normalize_term: strip, lower, delete the punctuation
normalize_term(text) == Without(Lower(Strip(text)), PY_NORMALIZE_CHARS)

\* _sql_normalize_expr, on a column value already COALESCEd to ''
sql_normalize(value) == Without(Lower(value), SQL_NORMALIZE_CHARS)

\* a in b of Python: a is a substring of b
IsSubstring(a, b) ==
    \E i \in 0..(Len(b) - Len(a)) : \A k \in 1..Len(a) : b[i + k] = a[k]

\* value LIKE '%' || pat || '%': case-insensitive on ASCII letters, and a '_'
\* of the pattern stands for any one character
Like(value, pat) ==
    \E i \in 0..(Len(value) - Len(pat)) :
        \A k \in 1..Len(pat) :
            pat[k] = "_" \/ LowerAtom(value[i + k]) = LowerAtom(pat[k])

\* _unique_terms: the stripped, non-empty values, each kept where it is first
RECURSIVE unique_terms(_)
unique_terms(values) ==
    IF values = <<>> THEN <<>>
    ELSE LET n == Len(values)
             front == unique_terms(SubSeq(values, 1, n - 1))
             v == Strip(values[n])
         IN  IF v = <<>> \/ v \in Range(front) THEN front ELSE Append(front, v)

\* _is_related_term
is_related_term(a, b) ==
    LET na == normalize_term(a)
        nb == normalize_term(b)
    IN  IF na = <<>> \/ nb = <<>> THEN FALSE
        ELSE IF na = nb THEN TRUE
        ELSE IF Len(na) < 2 \/ Len(nb) < 2 THEN FALSE
        ELSE IsSubstring(na, nb) \/ IsSubstring(nb, na)

\* _TOKEN_SPLIT_RE.split(q): the pieces between runs of separators; piece is
\* the piece being read
RECURSIVE SplitTokens(_, _)
SplitTokens(q, piece) ==
    IF q = <<>> THEN <<piece>>
    ELSE IF Head(q) \in TOKEN_SPLIT_CHARS
         THEN IF Tail(q) # <<>> /\ Head(Tail(q)) \in TOKEN_SPLIT_CHARS
              THEN SplitTokens(Tail(q), piece)
              ELSE <<piece>> \o SplitTokens(Tail(q), <<>>)
         ELSE SplitTokens(Tail(q), Append(piece, Head(q)))

\* the keys of TAG_ALIAS in the order of the dict
ALIAS_KEYS == <<<<"dong", "mul", "gwi">>, <<"in", "gwon", "eop", "eum">>>>

\* the alias terms that the base terms bring in, in the order of the two loops
RECURSIVE AliasExpansion(_, _)
AliasExpansion(base_terms, n) ==
    IF n = 0 THEN <<>>
    ELSE LET term == base_terms[((n - 1) \div Len(ALIAS_KEYS)) + 1]
             key == ALIAS_KEYS[((n - 1) % Len(ALIAS_KEYS)) + 1]
             alias_terms == <<key>> \o TAG_ALIAS[key]
             related == \E i \in 1..Len(alias_terms) : is_related_term(term, alias_terms[i])
         IN  AliasExpansion(base_terms, n - 1) \o (IF related THEN alias_terms ELSE <<>>)

\* the search terms of a query that gets no alias expansion
BaseSearchTerms(q) ==
    LET Long(term) == Len(normalize_term(term)) >= 3
    IN  unique_terms(<<q>> \o SelectSeq(SplitTokens(q, <<>>), Long))

\* _build_search_terms: the base terms, then the key and the values of every
\* TAG_ALIAS entry a base term is related to (and, for comparison, the base
\* terms alone)
BuildSearchTermsMutNoAlias(q) == BaseSearchTerms(q)

build_search_terms(q) ==
    LET base_terms == BaseSearchTerms(q)
    IN  unique_terms(base_terms \o
                     AliasExpansion(base_terms, Len(base_terms) * Len(ALIAS_KEYS)))

\* the code point of a character, for the BINARY collation of ORDER BY
CharCode(c) ==
    CASE c = WS -> 32 [] c = "#" -> 35 [] c = "," -> 44 [] c = "-" -> 45
      [] c = "." -> 46 [] c = "/" -> 47 [] c = "1" -> 49 [] c = "2" -> 50
      [] c = "3" -> 51 [] c = "A" -> 65 [] c = "B" -> 66 [] c = "_" -> 95
      [] c = "a" -> 97 [] c = "b" -> 98 [] c = "h" -> 104 [] c = "|" -> 124
      [] OTHER -> 50000

\* a < b in the BINARY collation
RECURSIVE StrLess(_, _)
StrLess(a, b) ==
    IF b = <<>> THEN FALSE
    ELSE IF a = <<>> THEN TRUE
    ELSE IF CharCode(Head(a)) # CharCode(Head(b)) THEN CharCode(Head(a)) < CharCode(Head(b))
    ELSE StrLess(Tail(a), Tail(b))

\* ORDER BY p.card_number over the result rows
RECURSIVE OrderByCardNumber(_)
OrderByCardNumber(rows) ==
    IF rows = {} THEN <<>>
    ELSE LET first == CHOOSE r \in rows :
                         \A r2 \in rows : ~StrLess(r2.card_number, r.card_number)
         IN  <<first>> \o OrderByCardNumber(rows \ {first})

\* LIMIT ?, appended only if limit is not None and limit > 0 (None is 0 here),
\* and, for comparison, a statement that never gets a LIMIT
ApplyLimitMutNone(rows, limit) == rows

ApplyLimit(rows, limit) ==
    IF limit > 0 /\ Len(rows) > limit THEN SubSeq(rows, 1, limit) ELSE rows

\* the tags row of a LEFT JOIN that found none
NullTag == [null |-> TRUE, tag |-> <<>>, normalized |-> <<>>]

\* prints p LEFT JOIN card_texts_ko ko LEFT JOIN print_tags pt LEFT JOIN tags t:
\* the joined rows of one card
JoinedTags(card) == IF card.tags = {} THEN {NullTag} ELSE card.tags

\* the columns of the SELECT list
ResultRow(card) ==
    [print_id |-> card.print_id, card_number |-> card.card_number,
     name_ja |-> card.name_ja, name_ko |-> card.ko_name]

\* _build_tag_joins: "tag" for the text key, "tag_id" for the surrogate key,
\* "none" if neither join is possible (a missing table has no columns)
build_tag_joins(schema) ==
    IF "tag" \in schema.pt_cols /\ "tag" \in schema.t_cols THEN "tag"
    ELSE IF "tag_id" \in schema.pt_cols /\ "tag_id" \in schema.t_cols THEN "tag_id"
    ELSE "none"

\* the tag-capable statements name t.tag and t.normalized: sqlite3 raises
\* OperationalError (no such column) if the tags table lacks one of them
TagQueryRaises(schema) == ~({"tag", "normalized"} \subseteq schema.t_cols)

\* the normalized terms of query_suggest
NormalizedTerms(terms) ==
    unique_terms([i \in 1..Len(terms) |-> normalize_term(terms[i])])

\* the WHERE clause of query_suggest without the conditions on t
SuggestMatchesCard(card, q, nterms) ==
    \/ Like(card.card_number, q)
    \/ Like(card.name_ja, q)
    \/ Like(card.ko_name, q)
    \/ Like(card.ko_effect_text, q)
    \/ \E i \in 1..Len(nterms) :
          \/ Like(sql_normalize(card.card_number), nterms[i])
          \/ Like(sql_normalize(card.name_ja), nterms[i])
          \/ Like(sql_normalize(card.ko_name), nterms[i])
          \/ Like(sql_normalize(card.ko_effect_text), nterms[i])

\* the conditions on t of the WHERE clause of query_suggest
SuggestMatchesTag(t, q, terms, nterms) ==
    \/ ~t.null /\ (Like(t.tag, q) \/ Like(t.normalized, q))
    \/ \E i \in 1..Len(terms) : Like(t.tag, terms[i]) \/ Like(t.normalized, terms[i])
    \/ \E i \in 1..Len(nterms) :
          \/ Like(sql_normalize(t.tag), nterms[i])
          \/ Like(sql_normalize(t.normalized), nterms[i])

\* the rows query_suggest selects with the search terms terms, before ORDER BY
SuggestRows(d, q, terms) ==
    LET nterms == NormalizedTerms(terms)
        joins == build_tag_joins(d.schema)
    IN  {ResultRow(card) : card \in
            {c \in d.cards :
                \/ SuggestMatchesCard(c, q, nterms)
                \/ /\ joins # "none"
                   /\ \E t \in JoinedTags(c) : SuggestMatchesTag(t, q, terms, nterms)}}

\* a result of a query function
Raised == [raised |-> TRUE, rows |-> <<>>]

Returned(rows) == [raised |-> FALSE, rows |-> rows]

\* query_suggest(conn, q, limit)
query_suggest(d, q0, limit) ==
    LET q == Strip(q0)
    IN  IF q = <<>> THEN Returned(<<>>)
        ELSE IF build_tag_joins(d.schema) # "none" /\ TagQueryRaises(d.schema) THEN Raised
        ELSE Returned(ApplyLimit(OrderByCardNumber(SuggestRows(d, q, build_search_terms(q))),
                                 limit))

\* the = of query_exact: UPPER(column) = UPPER(?), LOWER(column) = LOWER(?), and
\* the normalized column = the normalized query if that is not empty
ExactEqMutLike(value, q, nq) ==
    Like(value, q) \/ (nq # <<>> /\ Like(sql_normalize(value), nq))

ExactEq(value, q, nq) ==
    Lower(value) = Lower(q) \/ (nq # <<>> /\ sql_normalize(value) = nq)

\* the WHERE clause of query_exact without the conditions on t
ExactMatchesCard(card, q, nq) ==
    \/ ExactEq(card.card_number, q, nq)
    \/ ExactEq(card.name_ja, q, nq)
    \/ ExactEq(card.ko_name, q, nq)

\* t.tag IS NOT NULL AND (...)
ExactMatchesTag(t, q, nq) ==
    ~t.null /\ (ExactEq(t.tag, q, nq) \/ ExactEq(t.normalized, q, nq))

ExactRows(d, q) ==
    LET nq == normalize_term(q)
        joins == build_tag_joins(d.schema)
    IN  {ResultRow(card) : card \in
            {c \in d.cards :
                \/ ExactMatchesCard(c, q, nq)
                \/ /\ joins # "none"
                   /\ \E t \in JoinedTags(c) : ExactMatchesTag(t, q, nq)}}

\* query_exact(conn, q, limit)
query_exact(d, q0, limit) ==
    LET q == Strip(q0)
    IN  IF q = <<>> THEN Returned(<<>>)
        ELSE IF build_tag_joins(d.schema) # "none" /\ TagQueryRaises(d.schema) THEN Raised
        ELSE Returned(ApplyLimit(OrderByCardNumber(ExactRows(d, q)), limit))

MaxLimit == 2        \* largest limit handed to a search

\* a tags row as upsert_tag writes it
TagRow(text) == [null |-> FALSE, tag |-> text, normalized |-> normalize_tag(text)]

\* the cards a database file may hold (prints with their card_texts_ko row and
\* their tags); an empty ko_name and ko_effect_text is a card without translation,
\* and tags are the rows a schema with joinable tag tables holds for the card
SearchCards ==
    { [print_id |-> 1, card_number |-> <<"h", "B", "-", "1">>, name_ja |-> <<"A", ".", "b">>,
       ko_name |-> <<>>, ko_effect_text |-> <<>>,
       tags |-> {TagRow(<<"#", "dong", "mul", "gwi">>)}],
      [print_id |-> 2, card_number |-> <<"h", "B", "-", "2">>, name_ja |-> <<"b", "a">>,
       ko_name |-> <<"a", "b">>, ko_effect_text |-> <<"b", WS, "b">>,
       tags |-> {TagRow(<<"#", "in", "gwon", "eop", "eum">>)}],
      [print_id |-> 3, card_number |-> <<"h", "A", "-", "3">>, name_ja |-> <<>>,
       ko_name |-> <<>>, ko_effect_text |-> <<"a", "b">>,
       tags |-> {TagRow(<<"#", "a", "b">>), TagRow(<<"#", "A", WS, "b">>)}],
      [print_id |-> 4, card_number |-> <<"h", "B", "-", "3">>, name_ja |-> <<"a", "b", "a">>,
       ko_name |-> <<"b">>, ko_effect_text |-> <<>>, tags |-> {}] }

\* the columns of print_tags and tags in the database files the application
\* may be pointed at (no columns: the table is missing)
Schemas ==
    { [pt_cols |-> {"print_id", "tag_id"}, t_cols |-> {"tag_id", "tag", "normalized"}],
      [pt_cols |-> {"print_id", "tag"},    t_cols |-> {"tag", "normalized"}],
      [pt_cols |-> {},                     t_cols |-> {}],
      [pt_cols |-> {},                     t_cols |-> {"tag_id", "tag", "normalized"}],
      [pt_cols |-> {"print_id", "tag_id"}, t_cols |-> {}],
      [pt_cols |-> {"print_id", "label"},  t_cols |-> {"label"}],
      [pt_cols |-> {"print_id", "tag_id"}, t_cols |-> {"tag_id", "tag"}],
      [pt_cols |-> {"print_id", "tag"},    t_cols |-> {"tag"}] }

\* what the user may type in the search box
Queries ==
    { <<"dong", "mul", "gwi">>, <<"in", "gwon", "eop", "eum">>, <<"dong", "mul">>,
      <<"a", "b">>, <<"A", ".", "b">>, <<"a">>, <<WS>>, <<>>, <<"h", "b", "1">>,
      <<WS, "a", "b">>, <<"h", "B", "-", "1">>, <<"b", "a", "b", WS, "h", "b", "1">> }

InitSearch ==
    /\ sdb \in [schema : Schemas, cards : SUBSET SearchCards]
    /\ sq = <<>>
    /\ slimit = 0
    /\ smode = "idle"
    /\ sres = <<>>
    /\ StoreIdle
    /\ NormIdle
    /\ CrawlIdle
    /\ KoIdle
    /\ BatchIdle
    /\ ParseIdle
    /\ MoreIdle

\* the user searches in partial mode
SearchSuggest(q, limit) ==
    /\ sq' = q
    /\ slimit' = limit
    /\ smode' = "suggest"
    /\ sres' = query_suggest(sdb, q, limit)
    /\ UNCHANGED <<sdb, storeVars, normVars, crawlVars, koVars, batchVars, parseVars, moreVars>>

\* the user searches in exact mode
SearchExact(q, limit) ==
    /\ sq' = q
    /\ slimit' = limit
    /\ smode' = "exact"
    /\ sres' = query_exact(sdb, q, limit)
    /\ UNCHANGED <<sdb, storeVars, normVars, crawlVars, koVars, batchVars, parseVars, moreVars>>

NextSearch ==
    \E q \in Queries, limit \in 0..MaxLimit : SearchSuggest(q, limit) \/ SearchExact(q, limit)

SpecSearch == InitSearch /\ [][NextSearch]_vars

\* the rows of a result, as a set
RowsOf(res) == Range(res.rows)

\* the search just made ran the tag-capable statement to its end
TagSearched == build_tag_joins(sdb.schema) # "none" /\ ~sres.raised

(* C11: for an alias pair (a, b), on a schema that allows the tag join,      *)
(* query_suggest(a) without limit returns every row that a matches without   *)
(* alias expansion and every card whose only tag is #b.                      *)
C11_AliasSuperset ==
    \A a \in DOMAIN TAG_ALIAS :
        (smode = "suggest" /\ Strip(sq) = a /\ slimit = 0 /\ TagSearched) =>
            /\ SuggestRows(sdb, a, BaseSearchTerms(a)) \subseteq RowsOf(sres)
            /\ \A i \in 1..Len(TAG_ALIAS[a]) : \A c \in sdb.cards :
                  c.tags = {TagRow(<<"#">> \o TAG_ALIAS[a][i])} => ResultRow(c) \in RowsOf(sres)

C11_Witness ==
    /\ smode = "suggest" /\ sq = <<"dong", "mul", "gwi">> /\ slimit = 0 /\ TagSearched
    /\ \E c \in sdb.cards :
          /\ c.tags = {TagRow(<<"#", "in", "gwon", "eop", "eum">>)}
          /\ ResultRow(c) \in RowsOf(sres)
          /\ ResultRow(c) \notin SuggestRows(sdb, sq, BaseSearchTerms(sq))

\* the values of a card the partial search compares the query with
StoredValues(c) ==
    {c.card_number, c.name_ja, c.ko_name, c.ko_effect_text}
        \cup (IF build_tag_joins(sdb.schema) # "none" THEN {t.tag : t \in c.tags} ELSE {})

(* C12: in partial mode, whenever the normalized query is a substring of a   *)
(* stored value (card number, names, effect text, tag) normalized by         *)
(* _normalize_term, query_suggest returns that card.                         *)
C12_NormalizedSubstringMatches ==
    (smode = "suggest" /\ slimit = 0 /\ ~sres.raised /\ normalize_term(sq) # <<>>) =>
        \A c \in sdb.cards :
            (\E value \in StoredValues(c) :
                IsSubstring(normalize_term(sq), normalize_term(value)))
                => ResultRow(c) \in RowsOf(sres)

\* the values of a card the exact search compares the query with
ExactValues(c) ==
    {c.card_number, c.name_ja, c.ko_name}
        \cup (IF build_tag_joins(sdb.schema) # "none"
              THEN UNION {{t.tag, t.normalized} : t \in c.tags} ELSE {})

\* value equals the query case-insensitively or after normalization
EqualsQuery(value, q) ==
    \/ Lower(value) = Lower(q)
    \/ normalize_term(q) # <<>> /\ normalize_term(value) = normalize_term(q)

(* C13: query_exact returns a card only if the query equals, without regard  *)
(* to case or after normalization, its card number, source name, translated  *)
(* name, tag or normalized tag: a value the query is only a part of, the     *)
(* effect text and the aliases of the query bring no card.                   *)
C13_ExactOnlyEqual ==
    (smode = "exact" /\ ~sres.raised) =>
        \A r \in RowsOf(sres) : \E c \in sdb.cards :
            /\ ResultRow(c) = r
            /\ \E value \in ExactValues(c) : EqualsQuery(value, Strip(sq))

C13_Witness ==
    /\ smode = "exact" /\ ~sres.raised /\ sq = <<"a", "b">>
    /\ RowsOf(sres) # {}
    /\ \E c \in sdb.cards :
          IsSubstring(sq, c.name_ja) /\ c.name_ja # sq /\ ResultRow(c) \notin RowsOf(sres)
    /\ \E c \in sdb.cards : c.ko_effect_text = sq /\ ResultRow(c) \notin RowsOf(sres)

\* every row the WHERE clause of the last search selects
AllMatches ==
    IF smode = "suggest"
    THEN SuggestRows(sdb, Strip(sq), build_search_terms(Strip(sq)))
    ELSE ExactRows(sdb, Strip(sq))

(* C14: query_suggest and query_exact return their rows in ascending order   *)
(* of card_number, each print at most once; at most limit rows if limit > 0  *)
(* and every match if the limit is 0 or absent; an empty or whitespace-only  *)
(* query returns the empty list.                                             *)
C14_OrderedDistinctLimited ==
    (smode # "idle" /\ ~sres.raised) =>
        LET rows == sres.rows
        IN  /\ \A i, j \in 1..Len(rows) :
                  i < j => /\ StrLess(rows[i].card_number, rows[j].card_number)
                           /\ rows[i].print_id # rows[j].print_id
            /\ slimit > 0 => Len(rows) <= slimit
            /\ Strip(sq) = <<>> => rows = <<>>
            /\ (slimit = 0 /\ Strip(sq) # <<>>) => RowsOf(sres) = AllMatches

C14_Witness ==
    /\ smode = "suggest" /\ TagSearched /\ slimit = 1 /\ Len(sres.rows) = 1
    /\ Cardinality(AllMatches) > 1
    /\ \E c \in sdb.cards :
          /\ Cardinality({t \in c.tags : Like(t.tag, Strip(sq))}) > 1
          /\ ResultRow(c) = sres.rows[1]
          /\ \E c2 \in sdb.cards : c2.print_id < c.print_id /\ ResultRow(c2) \in AllMatches

\* the two layouts _build_tag_joins names as supported:
\* print_tags(print_id, tag) + tags(tag, normalized) and
\* print_tags(print_id, tag_id) + tags(tag_id, tag, normalized)
SupportedLayout(schema) ==
    \/ "tag" \in schema.pt_cols /\ {"tag", "normalized"} \subseteq schema.t_cols
    \/ "tag_id" \in schema.pt_cols /\ {"tag_id", "tag", "normalized"} \subseteq schema.t_cols

\* the rows the conditions on card number, names and effect text select
NonTagMatches ==
    LET q == Strip(sq)
    IN  IF q = <<>> THEN {}
        ELSE IF smode = "suggest"
        THEN {ResultRow(c) : c \in {c \in sdb.cards :
                 SuggestMatchesCard(c, q, NormalizedTerms(build_search_terms(q)))}}
        ELSE {ResultRow(c) : c \in {c \in sdb.cards :
                 ExactMatchesCard(c, q, normalize_term(q))}}

(* C15: when tags or print_tags is missing or has neither supported column   *)
(* layout, query_suggest and query_exact do not raise and return what the    *)
(* conditions on card number and names select, the tag search left out.      *)
C15_NoTagLayoutDegrades ==
    (smode # "idle" /\ ~SupportedLayout(sdb.schema)) =>
        /\ ~sres.raised
        /\ sres.rows = ApplyLimit(OrderByCardNumber(NonTagMatches), slimit)

\* the part of C15 the code keeps: a schema _build_tag_joins finds no join for
C15_NoJoinDegrades ==
    (smode # "idle" /\ build_tag_joins(sdb.schema) = "none") =>
        /\ ~sres.raised
        /\ sres.rows = ApplyLimit(OrderByCardNumber(NonTagMatches), slimit)

-----------------------------------------------------------------------------
(* The translation writers (specification SpecKo): upsert_ko_text of the     *)
(* wiki importers, import_csv of the two CSV importers and upsert_ko of      *)
(* namu_sync write card_texts_ko; the crawler, replace_print_tags and        *)
(* refine_db write the other tables of the same database.                    *)

MaxVersion == 2      \* the wiki importer stops bumping a version at this value
MaxCsvPrintId == 2   \* a CSV file names print_ids 1..MaxCsvPrintId

\* the name and effect text a translation write carries
KoContents ==
    {[name |-> <<"n1">>, effect_text |-> <<>>],
     [name |-> <<"n1">>, effect_text |-> <<"e1">>],
     [name |-> <<"n2">>, effect_text |-> <<"e1">>]}

\* no card_texts_ko row
NoKo == [name |-> <<>>, effect_text |-> <<>>, version |-> 0]

\* SELECT name, effect_text, version FROM card_texts_ko WHERE print_id=?
KoRow(k, print_id) == IF print_id \in DOMAIN k THEN k[print_id] ELSE NoKo

\* upsert_ko_text; existing is the map load_existing_ko read at the start of
\* the run and the function keeps up to date, that is, the table itself
upsert_ko_text(k, print_id, name, effect, overwrite) ==
    LET has == print_id \in DOMAIN k
        cached == KoRow(k, print_id)
        version == IF ~has THEN 1
                   ELSE IF cached.effect_text # effect \/ cached.name # name
                   THEN cached.version + 1
                   ELSE cached.version
    IN  IF has /\ ~overwrite /\ Strip(cached.effect_text) # <<>> THEN k
        ELSE (print_id :> [name |-> name, effect_text |-> effect, version |-> version]) @@ k

\* INSERT INTO card_texts_ko(print_id, name, effect_text, memo, source, updated_at)
\* ... ON CONFLICT(print_id) DO UPDATE SET name, effect_text, memo, source,
\* updated_at: the statement of import_ko_all_from_csv.import_csv and of
\* namu_sync.upsert_ko; a new row gets version DEFAULT 1, a row that is there
\* keeps its version
UpsertKoKeepVersion(k, print_id, name, effect) ==
    (print_id :> [name |-> name, effect_text |-> effect,
                  version |-> IF print_id \in DOMAIN k THEN k[print_id].version ELSE 1]) @@ k

\* what import_ko_from_csv.import_csv does with a row it does not skip: its
\* statement has '+' in front of the five SET lines, sqlite3 raises
\* OperationalError (near "+": syntax error) and nothing is written
ImportCsvStatementRaises == TRUE

\* the raw texts the crawler stores
KoRawTexts ==
    {tool_normalize_raw_text(t, TRUE) : t \in {<<<<"x">>, <<"MENU">>>>, <<<<"y">>>>}}

\* the tag lists the crawler finds on a page
KoTagLists == {<<>>, <<<<"#", "a">>>>}

\* refine_db with an UPDATE that sets raw_text only
RefineDbMutRawOnly(d) ==
    [d EXCEPT !.texts =
        {[r EXCEPT !.raw_text = refine_normalize_raw_text(r.raw_text)] : r \in @}]

\* refine_db: every card_texts_ja row whose normalized raw_text differs gets
\* raw_text and effect_text replaced (_apply_updates); the other rows are left
refine_db(d) ==
    [d EXCEPT !.texts =
        {IF refine_normalize_raw_text(r.raw_text) # r.raw_text
         THEN [r EXCEPT !.raw_text = refine_normalize_raw_text(r.raw_text),
                        !.effect_text = refine_normalize_raw_text(r.raw_text)]
         ELSE r : r \in @}]

\* _handle_detail: upsert_print, upsert_text_ja, replace_print_tags
handle_detail(d, card_number, detail, name, raw_text, tags) ==
    LET d1 == upsert_print(d, card_number, detail)
        print_id == PrintIdOf(d1, card_number)
    IN  replace_print_tags(upsert_text_ja(d1, print_id, name, raw_text), print_id, tags)

InitKo ==
    /\ db = EmptyDb
    /\ dbC = EmptyDb
    /\ sUpserted = <<>>
    /\ sReturned = <<>>
    /\ sReplaced = <<>>
    /\ ko = <<>>
    /\ koLast = [op |-> "none", print_id |-> 0, before |-> NoKo]
    /\ NormIdle
    /\ CrawlIdle
    /\ SearchIdle
    /\ BatchIdle
    /\ ParseIdle
    /\ MoreIdle

\* the crawler persists one card
KoCrawlCard(card_number, detail, raw_text, tags) ==
    /\ db' = handle_detail(db, card_number, detail, <<"name">>, raw_text, tags)
    /\ UNCHANGED <<dbC, histVars, normVars, crawlVars, searchVars, koVars, batchVars,
                   parseVars, moreVars>>

\* replace_print_tags on a print that is there
KoReplaceTags(print_id, tags) ==
    /\ print_id \in PrintIds(db)
    /\ db' = replace_print_tags(db, print_id, tags)
    /\ UNCHANGED <<dbC, histVars, normVars, crawlVars, searchVars, koVars, batchVars,
                   parseVars, moreVars>>

\* hocg_refine_update.refine_db
KoRefine ==
    /\ db' = refine_db(db)
    /\ UNCHANGED <<dbC, histVars, normVars, crawlVars, searchVars, koVars, batchVars,
                   parseVars, moreVars>>

\* import_rows: the print_id comes from load_print_map, the row from a table of
\* the wiki or of a sheet
KoImportRow(print_id, c, overwrite) ==
    /\ print_id \in PrintIds(db)
    /\ KoRow(ko, print_id).version < MaxVersion
    /\ ko' = upsert_ko_text(ko, print_id, c.name, c.effect_text, overwrite)
    /\ koLast' = [op |-> "upsert_ko_text", print_id |-> print_id,
                  before |-> KoRow(ko, print_id)]
    /\ UNCHANGED <<storeVars, normVars, crawlVars, searchVars, batchVars, parseVars, moreVars>>

\* import_ko_from_csv.import_csv on a file with one row: a row without
\* print_id, or with ko_name, ko_text and ko_memo all empty, is skipped
KoImportCsv(print_id, c) ==
    /\ c.name # <<>> \/ c.effect_text # <<>>
    /\ ko' = IF ImportCsvStatementRaises THEN ko
             ELSE UpsertKoKeepVersion(ko, print_id, c.name, c.effect_text)
    /\ koLast' = [op |-> "import_csv", print_id |-> print_id, before |-> KoRow(ko, print_id)]
    /\ UNCHANGED <<storeVars, normVars, crawlVars, searchVars, batchVars, parseVars, moreVars>>

\* import_ko_all_from_csv.import_csv on a file with one row of type card
KoImportAllCsv(print_id, c) ==
    /\ c.name # <<>> \/ c.effect_text # <<>>
    /\ ko' = UpsertKoKeepVersion(ko, print_id, c.name, c.effect_text)
    /\ koLast' = [op |-> "import_all_csv", print_id |-> print_id,
                  before |-> KoRow(ko, print_id)]
    /\ UNCHANGED <<storeVars, normVars, crawlVars, searchVars, batchVars, parseVars, moreVars>>

\* namu_sync.main: for a row of prints, upsert_ko(conn, print_id, title or
\* card_no, content) with content not empty
KoNamuSync(print_id, c) ==
    /\ print_id \in PrintIds(db)
    /\ c.name # <<>> /\ c.effect_text # <<>>
    /\ ko' = UpsertKoKeepVersion(ko, print_id, c.name, c.effect_text)
    /\ koLast' = [op |-> "upsert_ko", print_id |-> print_id, before |-> KoRow(ko, print_id)]
    /\ UNCHANGED <<storeVars, normVars, crawlVars, searchVars, batchVars, parseVars, moreVars>>

NextKo ==
    \/ \E c \in StrippedNumbers, r \in KoRawTexts, t \in KoTagLists :
          KoCrawlCard(c, [detail_id |-> 1, fields |-> FieldsOf(1)], r, t)
    \/ \E p \in PrintIds(db), t \in KoTagLists : KoReplaceTags(p, t)
    \/ KoRefine
    \/ \E p \in PrintIds(db), c \in KoContents, o \in BOOLEAN : KoImportRow(p, c, o)
    \/ \E p \in 1..MaxCsvPrintId, c \in KoContents : KoImportCsv(p, c)
    \/ \E p \in 1..MaxCsvPrintId, c \in KoContents : KoImportAllCsv(p, c)
    \/ \E p \in PrintIds(db), c \in KoContents : KoNamuSync(p, c)

SpecKo == InitKo /\ [][NextKo]_vars

(* C16: over any sequence of translation writes the version of a             *)
(* card_texts_ko row never decreases, goes up with every write that changes  *)
(* the row's name or effect text, and stays when the content is the same.    *)
C16_VersionTracksContent ==
    (koLast.op # "none" /\ koLast.before.version > 0) =>
        LET before == koLast.before
            after == KoRow(ko, koLast.print_id)
            changed == after.name # before.name \/ after.effect_text # before.effect_text
        IN  /\ after.version >= before.version
            /\ changed => after.version > before.version
            /\ ~changed => after.version = before.version

\* the part of C16 upsert_ko_text keeps
C16_UpsertKoTextTracks ==
    koLast.op = "upsert_ko_text" => C16_VersionTracksContent

(* C17: after any sequence of crawl, tag-replacement, refine and             *)
(* translation-import operations every print_tags, card_texts_ja and         *)
(* card_texts_ko row references a prints row.                                *)
C17_ForeignKeysLive ==
    /\ \A i \in 1..Len(db.print_tags) : db.print_tags[i].print_id \in PrintIds(db)
    /\ \A r \in db.texts : r.print_id \in PrintIds(db)
    /\ \A print_id \in DOMAIN ko : print_id \in PrintIds(db)

-----------------------------------------------------------------------------
(* The cap and the batches of a crawl (specifications Spec and SpecBatch)    *)

\* the run has persisted max_cards cards
AtCap == args.max_cards > 0 /\ seen_total >= args.max_cards

(* C18: with max_cards > 0 a run persists at most max_cards cards; once the  *)
(* cap is reached no list page is fetched, no set code is started and no     *)
(* card is persisted any more, and the run that ends has committed the cards *)
(* it persisted.                                                             *)
C18_MaxCardsCap ==
    /\ [](args.max_cards > 0 =>
             /\ seen_total <= args.max_cards
             /\ Cardinality(db.prints) <= args.max_cards)
    /\ [][AtCap => /\ pagesFetched' = pagesFetched
                   /\ expIdx' = expIdx
                   /\ seen_total' \in {seen_total, 0}
                   /\ db' \in {db, dbC}
                   /\ pc' \in {"drain", "finish", "done", "killed"}]_vars
    /\ []((pc = "done" /\ AtCap) => dbC = db)

C18_Witness ==
    /\ pc = "done" /\ AtCap /\ args.expansion = "all"
    /\ Cardinality(dbC.prints) = args.max_cards
    /\ expIdx < Len(RunList)
    /\ Cardinality(listed) > seen_total

\* SpecBatch counts the cards of a crawl instead of storing them, so that a
\* run gets past BatchSize cards: bUncommitted is the number of cards in the
\* connection's open transaction, bCommitted the number of cards on disk

MaxPageItems == 60   \* most new cards on one list page
MaxBatchTotal == 111 \* the crawl fetches no list page once it holds this many cards

\* the numbers of items of a list page
BatchPageSizes == {1, BatchSize - 1, MaxPageItems}

InitBatch ==
    /\ bpc = "page_loop"
    /\ bCap \in {0, BatchSize}
    /\ bTotal = 0
    /\ bLeft = 0
    /\ bUncommitted = 0
    /\ bCommitted = 0
    /\ bLost = 0
    /\ StoreIdle
    /\ NormIdle
    /\ CrawlIdle
    /\ SearchIdle
    /\ KoIdle
    /\ ParseIdle
    /\ MoreIdle

\* scrape_expansion: the next list page, of this or of the next set code
BatchFetchPage(n) ==
    /\ bpc = "page_loop"
    /\ bTotal < MaxBatchTotal
    /\ bLeft' = n
    /\ bpc' = "items"
    /\ UNCHANGED <<bCap, bTotal, bUncommitted, bCommitted, bLost,
                   storeVars, normVars, crawlVars, searchVars, koVars, parseVars, moreVars>>

\* process_list_page: the item was seen, its fetch failed or its page has no
\* card number: continue
BatchItemSkipped ==
    /\ bpc = "items"
    /\ bLeft > 0
    /\ bLeft' = bLeft - 1
    /\ UNCHANGED <<bpc, bCap, bTotal, bUncommitted, bCommitted, bLost,
                   storeVars, normVars, crawlVars, searchVars, koVars, parseVars, moreVars>>

\* process_list_page: _handle_detail writes the card of the item
BatchItemWritten ==
    /\ bpc = "items"
    /\ bLeft > 0
    /\ bLeft' = bLeft - 1
    /\ bUncommitted' = bUncommitted + 1
    /\ bpc' = "added"
    /\ UNCHANGED <<bCap, bTotal, bCommitted, bLost,
                   storeVars, normVars, crawlVars, searchVars, koVars, parseVars, moreVars>>

\* process_list_page: if added: args._seen_total += 1, the return at the cap,
\* the commit of a full batch
BatchItemAdded ==
    /\ bpc = "added"
    /\ bTotal' = bTotal + 1
    /\ IF bCap > 0 /\ bTotal + 1 >= bCap
       THEN /\ bpc' = "finish"
            /\ bLeft' = 0
            /\ UNCHANGED <<bUncommitted, bCommitted>>
       ELSE /\ bpc' = "items"
            /\ IF BatchDue(bTotal + 1)
               THEN bUncommitted' = 0 /\ bCommitted' = bCommitted + bUncommitted
               ELSE UNCHANGED <<bUncommitted, bCommitted>>
            /\ UNCHANGED bLeft
    /\ UNCHANGED <<bCap, bLost, storeVars, normVars, crawlVars, searchVars, koVars,
                   parseVars, moreVars>>

\* process_list_page: conn.commit(); return new_items, 0
BatchPageEnd ==
    /\ bpc = "items"
    /\ bLeft = 0
    /\ bCommitted' = bCommitted + bUncommitted
    /\ bUncommitted' = 0
    /\ bpc' = "page_loop"
    /\ UNCHANGED <<bCap, bTotal, bLeft, bLost,
                   storeVars, normVars, crawlVars, searchVars, koVars, parseVars, moreVars>>

\* cmd_scrape: conn.commit(); conn.close(), after the cap or the last page
BatchFinish ==
    /\ bpc \in {"finish", "page_loop"}
    /\ bCommitted' = bCommitted + bUncommitted
    /\ bUncommitted' = 0
    /\ bpc' = "done"
    /\ UNCHANGED <<bCap, bTotal, bLeft, bLost,
                   storeVars, normVars, crawlVars, searchVars, koVars, parseVars, moreVars>>

\* the process is interrupted: the open transaction is rolled back
BatchKill ==
    /\ bpc \notin {"done", "killed"}
    /\ bpc' = "killed"
    /\ bLost' = bUncommitted
    /\ bUncommitted' = 0
    /\ bLeft' = 0
    /\ UNCHANGED <<bCap, bTotal, bCommitted,
                   storeVars, normVars, crawlVars, searchVars, koVars, parseVars, moreVars>>

NextBatch ==
    \/ \E n \in BatchPageSizes : BatchFetchPage(n)
    \/ BatchItemSkipped
    \/ BatchItemWritten
    \/ BatchItemAdded
    \/ BatchPageEnd
    \/ BatchFinish
    \/ BatchKill

SpecBatch == InitBatch /\ [][NextBatch]_vars

(* C19: at every point of a crawl at most one batch (50) of the persisted    *)
(* cards is not committed; an interruption loses at most one batch and no    *)
(* committed card.                                                           *)
C19_AtMostOneBatchUncommitted ==
    /\ [](/\ bUncommitted <= BatchSize
          /\ bLost <= BatchSize
          /\ bpc \notin {"idle", "killed", "added"} => bCommitted + bUncommitted = bTotal)
    /\ [][bCommitted' >= bCommitted]_vars
    /\ [][bpc' = "killed" => bCommitted' = bCommitted /\ bLost' = bUncommitted]_vars

C19_Witness ==
    /\ bpc = "killed" /\ bLost = BatchSize /\ bCommitted = BatchSize

-----------------------------------------------------------------------------
(* parse_detail as a function of its arguments (specification SpecParse)     *)

\* the detail pages of SpecParse: those of the crawl, and pages whose first
\* card number in the text is not the one of the labelled field
ParsePages(d) ==
    DetailPages(d)
    \cup {[id |-> d, label |-> <<c>>, first |-> <<c2>>] : c \in CardCores, c2 \in CardCores}

InitParse ==
    /\ pIn \in {[page |-> pg, fallback_card_no |-> <<c>>, verbose |-> v] :
                   pg \in UNION {ParsePages(d) : d \in DetailIds},
                   c \in CardCores, v \in BOOLEAN}
    /\ pOut = <<>>
    /\ StoreIdle
    /\ NormIdle
    /\ CrawlIdle
    /\ SearchIdle
    /\ KoIdle
    /\ BatchIdle
    /\ MoreIdle

\* detail = parse_detail(detail_html, fallback_card_no=it.card_number, verbose)
ParseDetail ==
    /\ pOut = <<>>
    /\ pOut' = parse_detail(pIn.page, pIn.fallback_card_no)
    /\ UNCHANGED <<pIn, storeVars, normVars, crawlVars, searchVars, koVars, batchVars, moreVars>>

NextParse == ParseDetail

SpecParse == InitParse /\ [][NextParse]_vars

(* C20: parse_detail takes the card number from the labelled field, else     *)
(* from the first pattern match in the page text, else from the caller's     *)
(* expected number: a page without any card-number pattern yields a record   *)
(* that carries the expected number.                                         *)
C20_ResolutionOrder ==
    pOut # <<>> =>
        /\ pOut # None
        /\ pOut.card_number =
              IF pIn.page.label # <<>> THEN pIn.page.label
              ELSE IF pIn.page.first # <<>> THEN pIn.page.first
              ELSE pIn.fallback_card_no

\* the part of C20 the code keeps: the labelled field, else the first match
C20_LabelThenFirst ==
    (pOut # <<>> /\ (pIn.page.label # <<>> \/ pIn.page.first # <<>>)) =>
        /\ pOut # None
        /\ pOut.card_number =
              IF pIn.page.label # <<>> THEN pIn.page.label ELSE pIn.page.first

-----------------------------------------------------------------------------
(* One normalizer pass over an input text (specification SpecNorm): after   *)
(* NormCrawl from the input, or after the first NormRefine of an input,     *)
(* nPrev is the text handed in and nText the text returned.                 *)

CrawlPassDone == nOrigin = "crawled" /\ nPasses = 0

RefinePassDone == nOrigin = "input" /\ nPasses = 1

OnePassDone == CrawlPassDone \/ RefinePassDone

\* the lines the pass has worked on: the stripped non-blank lines of the input
InputLines == SplitLines(nPrev)

\* line is one of the lines of text
HasLine(text, line) == \E k \in 1..Len(text) : text[k] = line

(* C21: when a Tag label line is immediately followed by one or more        *)
(* hashtag lines, the normalized text has the one line made of the label    *)
(* and all those hashtags joined by blanks, and no hashtag of the block is  *)
(* left on a line of its own.                                               *)
C21_TagBlockOneLine ==
    OnePassDone =>
        \A i \in 1..Len(InputLines) :
            LET j == TagRunEnd(InputLines, i + 1)
            IN  (normalize_label(InputLines[i]) = <<"Tag">> /\ j > i + 1) =>
                    /\ HasLine(nText, <<"Tag">> \o JoinLines(InputLines, i + 1, j))
                    /\ \A h \in (i + 1)..(j - 1) : ~HasLine(nText, InputLines[h])

\* what both normalizers do with a text that is a Tag label and its hashtag
\* lines: the label stays on its own line, the hashtags are joined on the next
C21_TagBlockTwoLines ==
    (OnePassDone /\ Len(InputLines) >= 2 /\ InputLines[1] = <<"Tag">>
        /\ TagRunEnd(InputLines, 2) = Len(InputLines) + 1) =>
            nText = <<<<"Tag">>, JoinLines(InputLines, 2, Len(InputLines) + 1)>>

\* the lines the while loop of the pass sees a label's following line in: the
\* refine normalizer first drops the NOISE_EXACT lines
PassLines ==
    LET NotNoise(l) == normalize_label(l) \notin NOISE_EXACT
    IN  IF RefinePassDone THEN SelectSeq(InputLines, NotNoise) ELSE InputLines

(* C22: in both normalizers, for every merge label (CardType, Rarity,       *)
(* Color, LIFE, HP, CardNumber) that has a following line: when that line   *)
(* is no label line the output has the one line "label value" and the value *)
(* is on no line of its own; when that line is a label line the label is    *)
(* output alone (the following line is then subject to the same rule).      *)
C22_MergeLabelValue ==
    OnePassDone =>
        \A i \in 1..(Len(PassLines) - 1) :
            LET label == normalize_label(PassLines[i])
                nxt == PassLines[i + 1]
            IN  LabelIn(label, MERGE_LABELS) =>
                    IF is_label_line(nxt)
                    THEN HasLine(nText, label)
                    ELSE HasLine(nText, label \o nxt) /\ ~HasLine(nText, nxt)

\* the part of C22 the code keeps: a text that begins with a merge label that
\* is not also a private label begins, normalized, with the merged line or,
\* before a label line, with the label alone
C22_MergeFirstLabel ==
    (OnePassDone /\ Len(PassLines) >= 2
        /\ LabelIn(normalize_label(PassLines[1]), MERGE_LABELS \ REMOVE_LABELS)) =>
            nText[1] = IF is_label_line(PassLines[2])
                       THEN normalize_label(PassLines[1])
                       ELSE normalize_label(PassLines[1]) \o PassLines[2]

\* the index after the block of the Product label at line i: the next line
\* that the pass's SECTION_START_RE matches, or the end of the text
ProductBlockEnd(i) ==
    SkipToSection(PassLines, i + 1,
                  IF RefinePassDone THEN REFINE_SECTION_START ELSE TOOL_SECTION_START,
                  RefinePassDone)

(* C23: in the text the crawler stores and in the refine normalizer the     *)
(* Product label is removed when and only when the (up to six) lines after  *)
(* it hold a product-listing keyword, and then the whole block up to the    *)
(* next section-start label is dropped; a Product line without such         *)
(* keywords after it stays in the output and the line after it is kept.     *)
C23_ProductSectionOnly ==
    OnePassDone =>
        \A i \in 1..Len(PassLines) :
            normalize_label(PassLines[i]) = <<"Product">> =>
                IF is_real_section(PassLines, i)
                THEN /\ ~HasLine(nText, <<"Product">>)
                     /\ \A h \in (i + 1)..(ProductBlockEnd(i) - 1) :
                            ~HasLine(nText, PassLines[h])
                ELSE /\ HasLine(nText, <<"Product">>)
                     /\ (i + 1 <= Len(PassLines) /\ ~is_label_line(PassLines[i + 1]))
                            => HasLine(nText, PassLines[i + 1])

\* what the crawler's pass does: Product is a private label, so the text it
\* stores never has a Product line, with or without keywords after it
C23_CrawlAlwaysRemoves == CrawlPassDone => ~HasLine(nText, <<"Product">>)

\* first_label_idx of the refine pass, counted from 1; 0 when there is none
PassFirstLabel == FirstLabelIdx(PassLines, 1)

(* C24: in the refine normalizer, when the first recognized section label   *)
(* is not the first line, the title (the nearest line before it that is no  *)
(* label, no noise and no hashtag line) becomes the first output line, and  *)
(* no label line and no already merged "label value" line of the input is   *)
(* lost with the lines in front of the first label.                         *)
C24_TitleRelocationKeepsLabels ==
    (RefinePassDone /\ PassFirstLabel > 1) =>
        LET title == TitleBefore(PassLines, PassFirstLabel - 1)
        IN  /\ title # <<>> => nText[1] = title[1]
            /\ \A i \in 1..(PassFirstLabel - 1) :
                   is_label_line(PassLines[i]) => HasLine(nText, PassLines[i])

\* the part of C24 the code keeps: the title is the first output line
C24_TitleFirst ==
    (RefinePassDone /\ PassFirstLabel > 1
        /\ TitleBefore(PassLines, PassFirstLabel - 1) # <<>>) =>
            nText[1] = TitleBefore(PassLines, PassFirstLabel - 1)[1]

-----------------------------------------------------------------------------
(* The schema cache of the search engine under the UI's connection handling *)
(* (specification SpecCache).  A database file is an inode with a tag       *)
(* layout; a path names an inode.  A connection object has an id(), the     *)
(* inode it was opened on and the epoch it was opened in.  _JOIN_CACHE maps *)
(* ids to join variants (_COL_CACHE is filled and cleared together with it  *)
(* and read by _build_tag_joins only).  Each thread has its thread_local    *)
(* connection; the update pipeline replaces the file (release download) or  *)
(* changes it in place (the crawler's init_db).                             *)

MaxConnIds == 3       \* distinct id() values of connection objects
MaxEpoch == 1         \* most successful updates of a run

Threads == {"loop", "pool"}

Paths == {"p1", "p2"}

ConnIds == 1..MaxConnIds

MISSING == "MISSING"

\* the tag layouts of the files: the crawler's, the legacy one, no tag tables
CacheSchemas ==
    { [pt_cols |-> {"print_id", "tag_id"}, t_cols |-> {"tag_id", "tag", "normalized"}],
      [pt_cols |-> {"print_id", "tag"},    t_cols |-> {"tag", "normalized"}],
      [pt_cols |-> {},                     t_cols |-> {}] }

\* init_db: CREATE TABLE IF NOT EXISTS tags(...), print_tags(...)
init_db_schema(schema) ==
    [pt_cols |-> IF schema.pt_cols = {} THEN {"print_id", "tag_id"} ELSE schema.pt_cols,
     t_cols  |-> IF schema.t_cols = {} THEN {"tag_id", "tag", "normalized"}
                 ELSE schema.t_cols]

NoConn == [ino |-> 0, epoch |-> 0]

NoThreadConn == [conn |-> 0, epoch |-> -1, path |-> "None"]

\* clear_conn_cache(conn)
clear_conn_cache(join, id) == [join EXCEPT ![id] = MISSING]

\* close_thread_conn() on thread t, as a change of <<thread locals, connections,
\* cache>>
close_thread_conn(tl, conns, join, t) ==
    IF tl[t].conn # 0
    THEN [tl    |-> [tl EXCEPT ![t] = NoThreadConn],
          conns |-> [conns EXCEPT ![tl[t].conn] = NoConn],
          join  |-> clear_conn_cache(join, tl[t].conn)]
    ELSE [tl |-> [tl EXCEPT ![t] = NoThreadConn], conns |-> conns, join |-> join]

\* get_conn(): getattr(thread_local, "epoch", -1) != conn_epoch["value"]
EpochMoved(tl, t, epoch) == tl[t].epoch # epoch

\* get_conn() on thread t; id is the id() of the connection open_db makes when
\* a new one is needed (the old object is still referenced while open_db runs,
\* so the new id differs from it and from every open connection's)
get_conn(tl, conns, join, t, id, epoch, path, ino) ==
    IF tl[t].conn = 0 \/ EpochMoved(tl, t, epoch) \/ tl[t].path # path
    THEN LET old == tl[t].conn
             conns1 == IF old # 0 THEN [conns EXCEPT ![old] = NoConn] ELSE conns
             join1 == IF old # 0 THEN clear_conn_cache(join, old) ELSE join
         IN  [tl    |-> [tl EXCEPT ![t] = [conn |-> id, epoch |-> epoch, path |-> path]],
              conns |-> [conns1 EXCEPT ![id] = [ino |-> ino, epoch |-> epoch]],
              join  |-> join1]
    ELSE [tl |-> tl, conns |-> conns, join |-> join]

\* the ids open_db can hand to thread t
FreeIds(tl, conns, t) == {id \in ConnIds : conns[id] = NoConn /\ id # tl[t].conn}

\* _build_tag_joins(conn): the cached variant, else introspection, which fills
\* the cache
cached_tag_joins(join, id, schema) ==
    IF join[id] # MISSING THEN [join |-> join, used |-> join[id]]
    ELSE [join |-> [join EXCEPT ![id] = build_tag_joins(schema)],
          used |-> build_tag_joins(schema)]

InitCache ==
    /\ cIno \in [1..2 -> CacheSchemas]
    /\ cPath = [p \in Paths |-> IF p = "p1" THEN 1 ELSE 2]
    /\ cTfDb = "p1"
    /\ cEpoch = 0
    /\ cTl = [t \in Threads |-> NoThreadConn]
    /\ cConns = [id \in ConnIds |-> NoConn]
    /\ cJoin = [id \in ConnIds |-> MISSING]
    /\ cUpd = "idle"
    /\ cLast = <<>>
    /\ StoreIdle
    /\ NormIdle
    /\ CrawlIdle
    /\ SearchIdle
    /\ KoIdle
    /\ BatchIdle
    /\ ParseIdle
    /\ PipeIdle

CacheOthersUnchanged == UNCHANGED <<storeVars, normVars, crawlVars, baseExtVars, pipeVars>>

\* refresh_list on thread t with a query: conn = get_conn(), then query_suggest
\* or query_exact, which take the join variant from _build_tag_joins(conn).
\* st is <<thread locals, connections, cache>> before the call.
refresh_list(st, t, id) ==
    LET g == get_conn(st.tl, st.conns, st.join, t, id, cEpoch', cTfDb, cPath'[cTfDb])
        conn == g.tl[t].conn
        schema == cIno'[g.conns[conn].ino]
        j == cached_tag_joins(g.join, conn, schema)
    IN  /\ cTl' = g.tl
        /\ cConns' = g.conns
        /\ cJoin' = j.join
        /\ cLast' = [used |-> j.used, actual |-> build_tag_joins(schema),
                     opened |-> g.conns[conn].epoch, epoch |-> cEpoch']

\* the user types a query (tf_search is enabled: no update is running); the
\* handler runs on thread t
CacheSearch(t, id) ==
    /\ cUpd = "idle"
    /\ id \in FreeIds(cTl, cConns, t) \cup {cTl[t].conn}
    /\ UNCHANGED <<cIno, cPath, cTfDb, cEpoch, cUpd>>
    /\ refresh_list([tl |-> cTl, conns |-> cConns, join |-> cJoin], t, id)
    /\ CacheOthersUnchanged

\* the user edits the DB path field
CacheChangePath(p) ==
    /\ p # cTfDb
    /\ cTfDb' = p
    /\ UNCHANGED <<cIno, cPath, cEpoch, cTl, cConns, cJoin, cUpd, cLast>>
    /\ CacheOthersUnchanged

\* do_update_async starts the pipeline on dbp = tf_db.value
CacheUpdateStart ==
    /\ cUpd = "idle"
    /\ cEpoch < MaxEpoch
    /\ cUpd' = cTfDb
    /\ UNCHANGED <<cIno, cPath, cTfDb, cEpoch, cTl, cConns, cJoin, cLast>>
    /\ CacheOthersUnchanged

\* do_update_async after a pipeline that ended without exception: the epoch
\* is bumped, the loop thread's connection closed, and refresh_list() runs on
\* the loop thread (it searches when the search box holds a query)
UpdateSucceeded(searches, id) ==
    /\ cEpoch' = cEpoch + 1
    /\ cUpd' = "idle"
    /\ UNCHANGED cTfDb
    /\ LET st == close_thread_conn(cTl, cConns, cJoin, "loop")
       IN  IF searches
           THEN /\ id \in FreeIds(st.tl, st.conns, "loop")
                /\ refresh_list(st, "loop", id)
           ELSE /\ cTl' = st.tl
                /\ cConns' = st.conns
                /\ cJoin' = st.join
                /\ UNCHANGED cLast
    /\ CacheOthersUnchanged

\* the release download succeeds: os.replace puts a new file at dbp
CacheUpdateDownloaded(schema, searches, id) ==
    /\ cUpd \in Paths
    /\ cIno' = Append(cIno, schema)
    /\ cPath' = [cPath EXCEPT ![cUpd] = Len(cIno) + 1]
    /\ UpdateSucceeded(searches, id)

\* the download fails and the local tools run on dbp: the crawler's init_db
\* creates the missing tables in place; scrape, refine and import exit with 0
CacheUpdateLocal(searches, id) ==
    /\ cUpd \in Paths
    /\ cIno' = [cIno EXCEPT ![cPath[cUpd]] = init_db_schema(@)]
    /\ UNCHANGED cPath
    /\ UpdateSucceeded(searches, id)

\* the download fails and a local tool exits with a non-zero code after the
\* crawler's init_db: run_update_and_refine raises, do_update_async reports
\* the failure
CacheUpdateLocalFailed ==
    /\ cUpd \in Paths
    /\ cIno' = [cIno EXCEPT ![cPath[cUpd]] = init_db_schema(@)]
    /\ cUpd' = "idle"
    /\ UNCHANGED <<cPath, cTfDb, cEpoch, cTl, cConns, cJoin, cLast>>
    /\ CacheOthersUnchanged

NextCache ==
    \/ \E t \in Threads, id \in ConnIds : CacheSearch(t, id)
    \/ \E p \in Paths : CacheChangePath(p)
    \/ CacheUpdateStart
    \/ \E schema \in CacheSchemas, searches \in BOOLEAN, id \in ConnIds :
           CacheUpdateDownloaded(schema, searches, id)
    \/ \E searches \in BOOLEAN, id \in ConnIds : CacheUpdateLocal(searches, id)
    \/ CacheUpdateLocalFailed

SpecCache == InitCache /\ [][NextCache]_vars

(* C25: schema introspection is cached per connection and never stale: in   *)
(* every search the join variant taken from the cache is the one that       *)
(* introspecting the connection's database yields; after a successful       *)
(* update the next search of any thread runs on a connection opened after   *)
(* it; and no cache entry outlives its connection, so none can be applied   *)
(* to a later connection with the same id().                                *)
C25_CacheNeverStale ==
    /\ cLast # <<>> => (cLast.used = cLast.actual /\ cLast.opened = cLast.epoch)
    /\ \A id \in ConnIds : cJoin[id] # MISSING => cConns[id] # NoConn

\* the parts of C25 the code keeps: a search runs on a connection opened in the
\* current epoch, and only open connections have cache entries
C25_FreshAfterUpdate == cLast # <<>> => cLast.opened = cLast.epoch

C25_NoOrphanEntry == \A id \in ConnIds : cJoin[id] # MISSING => cConns[id] # NoConn

-----------------------------------------------------------------------------
(* Crawl upserts and refine passes alone (specification SpecJa).            *)

NextJa ==
    \/ \E c \in StrippedNumbers, r \in KoRawTexts, t \in KoTagLists :
          KoCrawlCard(c, [detail_id |-> 1, fields |-> FieldsOf(1)], r, t)
    \/ KoRefine

SpecJa == InitKo /\ [][NextJa]_vars

(* C26: after any sequence of crawl upserts and refine passes, every        *)
(* card_texts_ja row has effect_text equal to raw_text.                     *)
C26_EffectTextIsRawText == \A r \in db.texts : r.effect_text = r.raw_text

\* a row whose text the crawler cannot store as it is: the crawler wrote
\* "x", "MENU" and a refine pass replaced both columns by "x"
C26_Witness ==
    /\ <<<<"x">>>> \notin KoRawTexts
    /\ \E r \in db.texts : r.raw_text = <<<<"x">>>> /\ r.effect_text = <<<<"x">>>>

-----------------------------------------------------------------------------
(* The update pipeline of the application (specification SpecPipe):         *)
(* run_update_and_refine with _download_latest_release_db.  A file is named *)
(* by the kind of its content: "old" the database in place before the run,  *)
(* "bundle" the bundled one, and for a downloaded body "valid" (a complete  *)
(* SQLite file with a prints table), "noprints" (a complete SQLite file     *)
(* without one), "truncated" (the SQLite header and a part of the pages),   *)
(* "html" (no SQLite header) and "empty".                                   *)

BodyKinds == {"valid", "noprints", "truncated", "html", "empty"}

\* what the asset request can do: fail in urlopen (HTTPError, URLError), fail
\* while the body is read (a timeout, after a part was written), or deliver a
\* body up to the end of the stream
Responses ==
    {[status |-> st, body |-> "empty"] : st \in {"HTTPError", "URLError"}}
    \cup {[status |-> "read_error", body |-> "truncated"]}
    \cup {[status |-> "ok", body |-> b] : b \in BodyKinds}

\* _validate_sqlite accepting every file that begins with the SQLite header
ValidateSqliteMutHeaderOnly(content) ==
    IF content \in {"none", "empty"} THEN "RuntimeError"
    ELSE IF content = "html" THEN "RuntimeError"
    ELSE "ok"

\* _validate_sqlite(tmp): the file is there and not empty, begins with the
\* SQLite header, and the sqlite_master query finds prints (on a file with
\* missing pages the query raises sqlite3.DatabaseError)
validate_sqlite(content) ==
    IF content \in {"none", "empty"} THEN "RuntimeError"
    ELSE IF content = "html" THEN "RuntimeError"
    ELSE IF content = "truncated" THEN "DatabaseError"
    ELSE IF content = "noprints" THEN "RuntimeError"
    ELSE "ok"

\* _download_latest_release_db(db_path) for the response resp, as the files
\* and the exception it leaves: the body is written to tmp, validated and
\* moved over the target; the finally clause unlinks tmp if it exists
download_latest_release_db(target, tmp, resp) ==
    IF resp.status \in {"HTTPError", "URLError"}
    THEN [target |-> target, tmp |-> "none", err |-> "RuntimeError"]
    ELSE IF resp.status = "read_error"
    THEN [target |-> target, tmp |-> "none", err |-> "OSError"]
    ELSE IF validate_sqlite(resp.body) # "ok"
    THEN [target |-> target, tmp |-> "none", err |-> validate_sqlite(resp.body)]
    ELSE [target |-> resp.body, tmp |-> "none", err |-> "none"]

\* rc != 0 with every exit code taken for a success
ExitFailedMutNever(rc) == FALSE

\* if rc1 != 0: raise RuntimeError(...)
ExitFailed(rc) == rc # 0

ExitCodes == {0, 1, 2}

Tools == <<"scrape", "refine", "import">>

InitPipe ==
    /\ plPc = "download"
    /\ plCfg \in [located : BOOLEAN, ko : BOOLEAN, bundle : BOOLEAN]
    /\ plTarget \in {"none", "empty", "old"}
    /\ plTmp \in {"none", "truncated"}
    /\ plStarted = <<>>
    /\ plRc = [t \in {} |-> 0]
    /\ plDl = <<>>
    /\ plErr = "none"
    /\ StoreIdle
    /\ NormIdle
    /\ CrawlIdle
    /\ SearchIdle
    /\ KoIdle
    /\ BatchIdle
    /\ ParseIdle
    /\ CacheIdle

PipeOthersUnchanged == UNCHANGED <<storeVars, normVars, crawlVars, baseExtVars, cacheVars>>

\* the try block of run_update_and_refine: the download succeeds and the run
\* returns, or its exception is logged and the run goes on to the local tools
PipeDownload(resp) ==
    /\ plPc = "download"
    /\ LET r == download_latest_release_db(plTarget, plTmp, resp)
       IN  /\ plTarget' = r.target
           /\ plTmp' = r.tmp
           /\ plDl' = [resp |-> resp, before |-> plTarget, after |-> r.target,
                       tmp |-> r.tmp, err |-> r.err]
           /\ plPc' = IF r.err = "none" THEN "done" ELSE "locate"
    /\ UNCHANGED <<plCfg, plStarted, plRc, plErr>>
    /\ PipeOthersUnchanged

\* _find_project_root_with_tools() finds no tools: a non-empty database is
\* kept, else the bundled database is copied, else FileNotFoundError
PipeNoTools ==
    /\ plPc = "locate"
    /\ ~plCfg.located
    /\ IF plTarget \notin {"none", "empty"}
       THEN plPc' = "done" /\ UNCHANGED <<plTarget, plErr>>
       ELSE IF plCfg.bundle
       THEN plPc' = "done" /\ plTarget' = "bundle" /\ UNCHANGED plErr
       ELSE plPc' = "raised" /\ plErr' = "FileNotFoundError" /\ UNCHANGED plTarget
    /\ UNCHANGED <<plCfg, plTmp, plStarted, plRc, plDl>>
    /\ PipeOthersUnchanged

\* the tools are found: subprocess.Popen(cmd1), the scrape
PipeStartScrape ==
    /\ plPc = "locate"
    /\ plCfg.located
    /\ plStarted' = Append(plStarted, "scrape")
    /\ plPc' = "scrape"
    /\ UNCHANGED <<plCfg, plTarget, plTmp, plRc, plDl, plErr>>
    /\ PipeOthersUnchanged

\* the step after the tool at index i has exited with 0
AfterTool(i) ==
    IF i = 1 THEN "refine"
    ELSE IF i = 2 /\ plCfg.ko THEN "import"
    ELSE "done"

\* the running tool's output ends and p.wait() returns rc: a non-zero code
\* raises RuntimeError, else the next tool is started or the run ends
PipeToolExit(i, rc) ==
    /\ plPc = Tools[i]
    /\ plRc' = [t \in DOMAIN plRc \cup {Tools[i]} |-> IF t = Tools[i] THEN rc ELSE plRc[t]]
    /\ IF ExitFailed(rc)
       THEN plPc' = "raised" /\ plErr' = "RuntimeError" /\ UNCHANGED plStarted
       ELSE /\ plPc' = AfterTool(i)
            /\ plStarted' = IF AfterTool(i) = "done" THEN plStarted
                            ELSE Append(plStarted, AfterTool(i))
            /\ UNCHANGED plErr
    /\ UNCHANGED <<plCfg, plTarget, plTmp, plDl>>
    /\ PipeOthersUnchanged

NextPipe ==
    \/ \E resp \in Responses : PipeDownload(resp)
    \/ PipeNoTools
    \/ PipeStartScrape
    \/ \E i \in 1..3, rc \in ExitCodes : PipeToolExit(i, rc)

SpecPipe == InitPipe /\ [][NextPipe]_vars

(* C27: run_update_and_refine runs its steps in order and stops at the      *)
(* first failure: the scrape starts only if the release download failed,    *)
(* refine only after the scrape exited with 0, the Korean import only after *)
(* refine exited with 0; a non-zero exit code raises an error and no later  *)
(* step runs; a successful download ends the run with no local tool         *)
(* started.                                                                 *)
C27_StepsInOrderStopAtFailure ==
    /\ \A k \in 1..Len(plStarted) : plStarted[k] = Tools[k]
    /\ plStarted # <<>> => (plDl # <<>> /\ plDl.err # "none")
    /\ Len(plStarted) >= 2 => ("scrape" \in DOMAIN plRc /\ plRc["scrape"] = 0)
    /\ Len(plStarted) >= 3 => ("refine" \in DOMAIN plRc /\ plRc["refine"] = 0)
    /\ \A t \in DOMAIN plRc :
           plRc[t] # 0 => /\ plPc = "raised"
                          /\ plErr = "RuntimeError"
                          /\ plStarted[Len(plStarted)] = t
    /\ (plDl # <<>> /\ plDl.err = "none") => (plStarted = <<>> /\ plPc = "done")

\* refine exits with a non-zero code in a run that has a Korean source: the
\* run has raised and the import was not started
C27_Witness ==
    /\ plCfg.ko
    /\ plStarted = <<"scrape", "refine">>
    /\ "refine" \in DOMAIN plRc /\ plRc["refine"] # 0
    /\ plPc = "raised"

-----------------------------------------------------------------------------
(* The pool of detail fetches (specification Spec, workers > 1).            *)

(* C28: with workers > 1, once the max-cards cap has been reached no        *)
(* further detail-page fetch is started: a fetch that was submitted to the  *)
(* pool and is not yet running is not executed after the cap is hit.        *)
C28_NoFetchStartsAfterCap ==
    [][(args.workers > 1 /\ args.max_cards > 0 /\ seen_total >= args.max_cards)
          => fetched' = fetched]_vars

\* what the pool does at the cap: the futures that are pending when the cap
\* is hit are still there to be started, and the return waits for them
C28_PendingSurviveCap ==
    [][(pc = "added" /\ pc' = "drain") => fut' = fut]_vars

(* C29: all Store writes of a crawl (upsert_print, upsert_text_ja,          *)
(* replace_print_tags, commit) are made by the orchestrating thread, also   *)
(* with workers > 1: a step that writes is a step of _handle_detail or a    *)
(* commit of the main thread and never a step of a pool thread (which       *)
(* changes a future), and the three writes of a card are not interleaved    *)
(* with the writes of another card.                                         *)
C29_WritesOnOrchestrator ==
    /\ [][(db' # db /\ pc' \notin {"killed", "aborted"}) =>
             /\ pc \in {"h_print", "h_text", "h_tags"}
             /\ pc' \in {"h_text", "h_tags", "added"}
             /\ fut' = fut
             /\ cur'.card_id = cur.card_id]_vars
    /\ [][dbC' # dbC =>
             /\ pc \in {"added", "items", "collect", "finish"}
             /\ fut' \in {fut, NoFut}]_vars
    /\ [][(pc \in {"h_print", "h_text"} /\ pc' \notin {"killed", "aborted"}) =>
             cur'.card_id = cur.card_id]_vars

\* the main thread is between two writes of a card while a pool thread is
\* fetching another card's page
C29_Witness ==
    /\ args.workers > 1
    /\ pc = "h_text"
    /\ \E d \in DOMAIN fut : fut[d].st = "running" /\ d # cur.card_id

=============================================================================
